---- MODULE Spec2Model ----
(***************************************************************************)
(* Model of the unweave session orchestration layer: the Session Service   *)
(* (Create, Get, List, Watch, Terminate), the background Status Watcher,   *)
(* the Credential Resolver and the LambdaLabs provider adapter.            *)
(***************************************************************************)
EXTENDS Integers, Sequences, FiniteSets, TLC

\* ------------------------------------------------------------------ bounds
MaxSessions == 2
MaxNodes == 2
MaxWatchers == 2
MaxFeed == 4
RaceFeed == 2
MaxKeys == 2
MaxLaunches == 1
MaxServiceSessions == 1
MaxChain == 3

\* --------------------------------------------------------------- constants
ListLimit == 100
ListOffset == 0

StatusInitializing == "initializing"
StatusActive == "active"
StatusTerminated == "terminated"
Statuses == {StatusInitializing, StatusActive, StatusTerminated}

LambdaLabsProvider == "LambdaLabs"
UnweaveProvider == "Unweave"
Providers == {LambdaLabsProvider, UnweaveProvider}

Nil == "<nil>"
Account == "acct"
Projects == {"p1", "p2"}
Regions == {"us-east", "us-west"}
NodeTypes == {"X", "Y"}

\* --------------------------------------------------------------- errors
\* A Go error value. kind is "nil" (no error), "Error" (a *types.Error is in
\* the chain: code, provider, msg and suggestion are its fields) or "plain"
\* (no *types.Error in the chain). ctx is the outermost message of the chain,
\* cause the message of the innermost error of the chain.
NoErr ==
  [kind |-> "nil", code |-> 0, provider |-> "", msg |-> "", suggestion |-> "", ctx |-> "", cause |-> ""]
TypedErr(c, m) ==
  [kind |-> "Error", code |-> c, provider |-> "", msg |-> m, suggestion |-> "", ctx |-> m, cause |-> m]
PlainErr(m) ==
  [kind |-> "plain", code |-> 0, provider |-> "", msg |-> "", suggestion |-> "", ctx |-> m, cause |-> m]
\* fmt.Errorf("<m>: %w", e): the cause stays in the chain.
Wrap(m, e) == [e EXCEPT !.ctx = m]
\* &types.Error{..., Err: inner}: the Error e with inner as the rest of its chain.
WithErr(e, inner) == [e EXCEPT !.cause = inner.cause]
IsErr(e) == e.kind # "nil"

\* The error of a persistence call that failed (other than sql.ErrNoRows).
DBErr == PlainErr("sql: connection refused")
\* The error of an HTTP request to the provider that got no response.
TransportErr == PlainErr("transport")

CredSuggestion == "Make sure your LambdaLabs credentials are up to date"
StatusSuggestion == "LambdaLabs might be experiencing issues"

ProvErr(c, m, sg) ==
  [kind |-> "Error", code |-> c, provider |-> LambdaLabsProvider, msg |-> m, suggestion |-> sg,
   ctx |-> m, cause |-> m]
err400(m) == ProvErr(400, m, "")
err401(m) == ProvErr(401, m, CredSuggestion)
err403(m) == ProvErr(403, m, CredSuggestion)
err404(m) == ProvErr(404, m, "")
err500(m) == ProvErr(500, IF m = "" THEN "Unknown error" ELSE m, StatusSuggestion)
err503(m) == ProvErr(503, m, "")
errUnknown(c) == ProvErr(c, "Unknown error", "")

\* ------------------------------------------------- provider REST responses
\* A response of the provider's REST API: its HTTP status (0: the request
\* itself failed, the client returned err != nil) and the error message of
\* its envelope.
CapacityMsg == "Not enough Available Capacity in region"
OtherMsg == "invalid request"
Resp(c, m) == [code |-> c, msg |-> m]
OK200 == Resp(200, "")
FailResponses == {Resp(0, ""), Resp(400, OtherMsg), Resp(400, CapacityMsg), Resp(401, OtherMsg),
                  Resp(403, OtherMsg), Resp(404, OtherMsg), Resp(500, ""), Resp(429, OtherMsg)}

LowerCapacityMsg == "no available capacity for this instance type"
QuotaMsg == "Capacity quota exceeded"

\* strings.ToLower on the messages of the provider
ToLower(m) ==
  CASE m = CapacityMsg -> "not enough available capacity in region"
    [] m = QuotaMsg -> "capacity quota exceeded"
    [] OTHER -> m

\* strings.Contains(m, "available capacity") on the messages of the provider
Contains(m) == m \in {"not enough available capacity in region", LowerCapacityMsg}

\* Fault variant of ContainsAvailableCapacity: the message is not lower-cased.
ContainsAvailableCapacity_CaseSensitive(m) == Contains(m)

\* strings.Contains(strings.ToLower(msg), "available capacity")
ContainsAvailableCapacity(m) == Contains(ToLower(m))

\* ------------------------------------------------------------- public keys
\* Supplied public keys: KeyA in canonical authorized-key form, KeyAComment
\* the same key with a trailing comment, KeyB another key, KeyBad unparsable.
KeyA == "ssh-ed25519 AAAA\n"
KeyAComment == "ssh-ed25519 AAAA me@host"
KeyB == "ssh-ed25519 BBBB\n"
KeyBad == "garbage"
PublicKeys == {KeyA, KeyAComment, KeyB, KeyBad}

\* ssh.ParseAuthorizedKey succeeds
ParseAuthorizedKeyOK(raw) == raw # KeyBad
\* ssh.MarshalAuthorizedKey(ssh.ParseAuthorizedKey(raw)): type and base64 body, newline-terminated
MarshalAuthorizedKey(raw) == IF raw = KeyAComment THEN KeyA ELSE raw

KeyNames == {"k1", "k2"}
GenNames == {"uw:alpha", "uw:beta"}

\* A types.SSHKey value (publicKey Nil: the pointer is nil).
SSHKey(n, pk) == [name |-> n, publicKey |-> pk]
NoKey == SSHKey("", Nil)

\* The value of F at v, v evaluated once.
With(v, F(_)) == CHOOSE r \in {F(x) : x \in {v}} : TRUE

\* ------------------------------------------------------ persistence port
\* Index of the first element of sequence q satisfying P, 0 when none does.
FirstIndex(q, P(_)) ==
  IF \E i \in 1..Len(q) : P(q[i])
  THEN CHOOSE i \in 1..Len(q) : P(q[i]) /\ \A j \in 1..(i - 1) : ~P(q[j])
  ELSE 0

\* Fault variant of SSHKeyGetByName: the name is not compared.
SSHKeyGetByName_Any(keys, owner, n) ==
  LET Match(k) == k.owner = owner IN FirstIndex(keys, Match)

\* select * from ssh_keys where name = $1 (and owner): row index, 0 for sql.ErrNoRows
SSHKeyGetByName(keys, owner, n) ==
  LET Match(k) == k.name = n /\ k.owner = owner IN FirstIndex(keys, Match)

\* Fault variant of SSHKeyGetByPublicKey: the lookup reports no row.
SSHKeyGetByPublicKey_None(keys, owner, pk) == 0

\* select * from ssh_keys where public_key = $1 (and owner)
SSHKeyGetByPublicKey(keys, owner, pk) ==
  LET Match(k) == k.publicKey = pk /\ k.owner = owner IN FirstIndex(keys, Match)

\* Fault variant of saveSSHKey: the insert is never rejected as a duplicate.
saveSSHKey_NoCheck(keys, owner, n, pk, fault) ==
  IF fault THEN [err |-> Wrap("failed to add ssh key to db", DBErr), keys |-> keys]
  ELSE [err |-> NoErr,
        keys |-> Append(keys, [owner |-> owner, name |-> n, publicKey |-> MarshalAuthorizedKey(pk)])]

\* saveSSHKey: inserts the key of the owner under the name, its public key in
\* canonical authorized-key form; the insert is rejected when the owner already
\* holds the name or the public key.
saveSSHKey(keys, owner, n, pk, fault) ==
  LET canon == MarshalAuthorizedKey(pk)
      taken == \E i \in 1..Len(keys) :
                 keys[i].owner = owner /\ (keys[i].name = n \/ keys[i].publicKey = canon)
  IN IF fault \/ taken
     THEN [err |-> Wrap("failed to add ssh key to db", DBErr), keys |-> keys]
     ELSE [err |-> NoErr, keys |-> Append(keys, [owner |-> owner, name |-> n, publicKey |-> canon])]

\* ---------------------------------------------------- credential resolver
\* Fault variant of KeyNameOrGenerated: an empty name is kept.
KeyNameOrGenerated_NilOnly(n, gen) == IF n = Nil THEN gen ELSE n

\* if sshKeyName == nil || *sshKeyName == "" { sshKeyName = "uw:" + random phrase }
KeyNameOrGenerated(n, gen) == IF n = Nil \/ n = "" THEN gen ELSE n

\* The end of fetchCredentials, reached with a public key that parses once
\* neither lookup has found a record: the key is saved under the supplied or
\* a generated name and returned as it was supplied.
fetchCredentialsSave(keys, owner, n, pk, env) ==
  LET newName == KeyNameOrGenerated(n, env.genName)
      saved == saveSSHKey(keys, owner, newName, pk, env.dbSave)
  IN IF IsErr(saved.err)
       THEN [err |-> TypedErr(500, "Failed to save SSH key"), key |-> NoKey, keys |-> keys]
     ELSE [err |-> NoErr, key |-> SSHKey(newName, pk), keys |-> saved.keys]

\* fetchCredentials(ctx, accountID, sshKeyName, sshPublicKey). env gives the
\* outcome of each persistence call (dbByName, dbByPk, dbSave: TRUE = the call
\* fails with an error other than sql.ErrNoRows) and the generated name.
fetchCredentials(keys, owner, n, pk, env) ==
  LET byName == IF n = Nil THEN 0 ELSE SSHKeyGetByName(keys, owner, n)
      canon == MarshalAuthorizedKey(pk)
      byPk == IF pk = Nil \/ ~ParseAuthorizedKeyOK(pk) THEN 0
              ELSE SSHKeyGetByPublicKey(keys, owner, canon)
      Fail(e) == [err |-> e, key |-> NoKey, keys |-> keys]
      Found(i) == [err |-> NoErr, key |-> SSHKey(keys[i].name, keys[i].publicKey), keys |-> keys]
  IN IF n = Nil /\ pk = Nil
       THEN Fail(TypedErr(400, "Either Key name or Public Key must be provided"))
     ELSE IF n # Nil /\ env.dbByName
       THEN Fail(WithErr(TypedErr(500, "Failed to get SSH key"), DBErr))
     ELSE IF n # Nil /\ byName # 0
       THEN Found(byName)
     ELSE IF pk # Nil /\ ~ParseAuthorizedKeyOK(pk)
       THEN Fail(TypedErr(400, "Invalid SSH public key"))
     ELSE IF pk # Nil /\ env.dbByPk
       THEN Fail(WithErr(TypedErr(500, "Failed to get SSH key"), DBErr))
     ELSE IF pk # Nil /\ byPk # 0
       THEN Found(byPk)
     ELSE IF pk = Nil
       THEN Fail(TypedErr(400, "SSH key not found"))
     ELSE fetchCredentialsSave(keys, owner, n, pk, env)

\* ------------------------------------------------------- provider adapter
\* ListSSHKeys: the provider's key store, or the error the response maps to.
ListSSHKeys(pkeys, resp) ==
  IF resp.code = 0 THEN [err |-> TransportErr, keys |-> <<>>]
  ELSE IF resp.code = 200 THEN [err |-> NoErr, keys |-> pkeys]
  ELSE IF resp.code = 401 THEN [err |-> err401(resp.msg), keys |-> <<>>]
  ELSE IF resp.code = 403 THEN [err |-> err403(resp.msg), keys |-> <<>>]
  ELSE [err |-> errUnknown(resp.code), keys |-> <<>>]

\* Fault variant of AddSSHKeyHit: only the name is compared.
AddSSHKeyHit_NameOnly(listed, key) ==
  LET Hit(k) == k.name = key.name IN FirstIndex(listed, Hit)

\* Fault variant of AddSSHKeyHit: the listing is never searched.
AddSSHKeyHit_None(listed, key) == 0

\* The first key of the listing that decides AddSSHKey's loop: it has the
\* name, or (a public key being supplied) the public key; 0 when none does.
AddSSHKeyHit(listed, key) ==
  LET Hit(k) == k.name = key.name \/ (key.publicKey # Nil /\ k.publicKey = key.publicKey)
  IN FirstIndex(listed, Hit)

\* AddSSHKey(ctx, sshKey): env.listKeys and env.addKey are the responses of
\* the list and the create request; a created key without a supplied public
\* key gets the one the provider generates.
AddSSHKey(pkeys, key, env) ==
  LET listed == ListSSHKeys(pkeys, env.listKeys)
      hit == AddSSHKeyHit(listed.keys, key)
      k == listed.keys[hit]
      r == env.addKey
      made == SSHKey(key.name, IF key.publicKey = Nil THEN env.genKey ELSE key.publicKey)
      Fail(e) == [err |-> e, key |-> NoKey, pkeys |-> pkeys]
  IN IF key.name = ""
       THEN Fail(PlainErr("SSH key name is required"))
     ELSE IF IsErr(listed.err)
       THEN Fail(Wrap("failed to list ssh keys", listed.err))
     ELSE IF hit # 0 /\ k.name = key.name /\ key.publicKey # Nil /\ key.publicKey # k.publicKey
       THEN Fail(err400("SSH key with the same name already exists with a different public key"))
     ELSE IF hit # 0
       THEN [err |-> NoErr, key |-> k, pkeys |-> pkeys]
     ELSE IF r.code = 0 THEN Fail(TransportErr)
     ELSE IF r.code = 401 THEN Fail(err401(r.msg))
     ELSE IF r.code = 403 THEN Fail(err403(r.msg))
     ELSE IF r.code = 400 THEN Fail(err400(r.msg))
     ELSE IF r.code # 200 THEN Fail(errUnknown(r.code))
     ELSE [err |-> NoErr, key |-> made, pkeys |-> Append(pkeys, made)]

\* registerCredentials(ctx, rt, key)
registerCredentials(pkeys, key, env) ==
  LET listed == ListSSHKeys(pkeys, env.listKeys)
      added == AddSSHKey(pkeys, key, env)
  IN IF IsErr(listed.err)
       THEN [err |-> Wrap("failed to list ssh keys from provider", listed.err), pkeys |-> pkeys]
     ELSE IF \E i \in 1..Len(listed.keys) : listed.keys[i].name = key.name
       THEN [err |-> NoErr, pkeys |-> pkeys]
     ELSE IF IsErr(added.err)
       THEN [err |-> Wrap("failed to add ssh key to provider", added.err), pkeys |-> pkeys]
     ELSE [err |-> NoErr, pkeys |-> added.pkeys]

\* The provider's live catalog: node type -> regions with available capacity.
CatalogXY == [t \in NodeTypes |-> IF t = "Y" THEN <<"us-east">> ELSE <<>>]
CatalogFull == [t \in NodeTypes |-> IF t = "X" THEN <<"us-west", "us-east">> ELSE <<"us-west">>]
CatalogOnlyX == [t \in {"X"} |-> <<"us-east">>]
Catalogs == {CatalogXY, CatalogFull, CatalogOnlyX}

\* json.Marshal of a catalog listing (nil: the listing failed)
CatalogJSON(c) ==
  IF c = CatalogXY THEN "[{X:[]},{Y:[us-east]}]"
  ELSE IF c = CatalogFull THEN "[{X:[us-west,us-east]},{Y:[us-west]}]"
  ELSE IF c = CatalogOnlyX THEN "[{X:[us-east]}]"
  ELSE "null"
NoCatalog == [t \in {} |-> <<>>]

\* ListNodeTypes: the catalog, or the error the response maps to.
ListNodeTypes(catalog, resp) ==
  IF resp.code = 0 THEN [err |-> TransportErr, types |-> NoCatalog]
  ELSE IF resp.code = 200 THEN [err |-> NoErr, types |-> catalog]
  ELSE IF resp.code = 401 THEN [err |-> err401(resp.msg), types |-> NoCatalog]
  ELSE IF resp.code = 403 THEN [err |-> err403(resp.msg), types |-> NoCatalog]
  ELSE [err |-> errUnknown(resp.code), types |-> NoCatalog]

\* Fault variant of finRegionForNode: the last listed region is taken.
finRegionForNode_Last(nodeTypeID, env) ==
  LET listed == ListNodeTypes(env.catalog, env.listTypes)
      e503 == err503("No region with available capacity for node type")
  IN IF IsErr(listed.err)
       THEN [err |-> Wrap("failed to list instance availability", listed.err), region |-> ""]
     ELSE IF nodeTypeID \in DOMAIN listed.types /\ Len(listed.types[nodeTypeID]) # 0
       THEN [err |-> NoErr, region |-> listed.types[nodeTypeID][Len(listed.types[nodeTypeID])]]
     ELSE [err |-> [e503 EXCEPT !.suggestion = CatalogJSON(listed.types)], region |-> ""]

\* finRegionForNode(ctx, nodeTypeID)
finRegionForNode(nodeTypeID, env) ==
  LET listed == ListNodeTypes(env.catalog, env.listTypes)
      e503 == err503("No region with available capacity for node type")
  IN IF IsErr(listed.err)
       THEN [err |-> Wrap("failed to list instance availability", listed.err), region |-> ""]
     ELSE IF nodeTypeID \in DOMAIN listed.types /\ Len(listed.types[nodeTypeID]) # 0
       THEN [err |-> NoErr, region |-> listed.types[nodeTypeID][1]]
     ELSE [err |-> [e503 EXCEPT !.suggestion = CatalogJSON(listed.types)], region |-> ""]

\* Instance ids the provider hands out, in launch order.
InstanceIds == <<"i-1", "i-2", "i-3", "i-4">>

\* types.Node{}
NoNode == [id |-> "", typeID |-> "", region |-> "", keyPair |-> NoKey, status |-> "", provider |-> ""]

\* InitNode(ctx, sshKey, nodeTypeID, region): env.launch is the response of
\* the launch request, env.noIds a 200 response without instance ids.
InitNode(nodes, key, nodeTypeID, region, env) ==
  LET found == finRegionForNode(nodeTypeID, env)
      reg == IF region = Nil THEN found.region ELSE region
      r == env.launch
      instances == ListNodeTypes(env.catalog, env.listTypes)
      id == InstanceIds[Len(nodes) + 1]
      node == [id |-> id, typeID |-> nodeTypeID, region |-> reg, keyPair |-> key,
               status |-> StatusInitializing, provider |-> LambdaLabsProvider]
      Fail(e) == [err |-> e, node |-> NoNode, nodes |-> nodes]
  IN IF region = Nil /\ IsErr(found.err) THEN Fail(found.err)
     ELSE IF r.code = 0 THEN Fail(TransportErr)
     ELSE IF r.code = 401 THEN Fail(err401(r.msg))
     ELSE IF r.code = 403 THEN Fail(err403(r.msg))
     ELSE IF r.code = 500 THEN Fail(err500(r.msg))
     ELSE IF r.code = 404 THEN Fail(err404(r.msg))
     ELSE IF r.code = 400 /\ ContainsAvailableCapacity(r.msg)
       THEN Fail([err503(r.msg) EXCEPT !.suggestion = CatalogJSON(instances.types)])
     ELSE IF r.code = 400 THEN Fail(err400(r.msg))
     ELSE IF r.code # 200 THEN Fail(errUnknown(r.code))
     ELSE IF env.noIds THEN Fail(PlainErr("failed to launch instance"))
     ELSE [err |-> NoErr, node |-> node,
           nodes |-> Append(nodes, [id |-> id, typeID |-> nodeTypeID, region |-> reg,
                                    keyName |-> key.name, running |-> TRUE])]

\* TerminateNode(ctx, nodeID): resp is the response of the terminate request.
TerminateNode(nodes, nodeID, resp) ==
  LET Fail(e) == [err |-> e, nodes |-> nodes]
  IN IF resp.code = 0 THEN Fail(TransportErr)
     ELSE IF resp.code = 401 THEN Fail(err401(resp.msg))
     ELSE IF resp.code = 403 THEN Fail(err403(resp.msg))
     ELSE IF resp.code = 400 THEN Fail(err400(resp.msg))
     ELSE IF resp.code = 404 THEN Fail(err404(resp.msg))
     ELSE IF resp.code = 500 THEN Fail(err500(resp.msg))
     ELSE IF resp.code # 200 THEN Fail(errUnknown(resp.code))
     ELSE [err |-> NoErr,
           nodes |-> [i \in 1..Len(nodes) |->
                        IF nodes[i].id = nodeID THEN [nodes[i] EXCEPT !.running = FALSE] ELSE nodes[i]]]

\* ------------------------------------------------------ runtime initializer
\* Fault variant of Initialize: a Runtime whatever the provider and the key.
Initialize_Any(provider, apiKey) == NoErr

\* EnvInitializer.Initialize(ctx, accountID, provider): apiKey is whether
\* LAMBDALABS_API_KEY is set.
Initialize(provider, apiKey) ==
  IF provider = LambdaLabsProvider
  THEN IF ~apiKey THEN PlainErr("missing LambdaLabs API key in runtime config file") ELSE NoErr
  ELSE PlainErr("\"" \o provider \o "\" provider not supported in the env initializer")

\* ------------------------------------------------------------------ state
VARIABLES
  sessions,   \* persisted session rows, in creation order; a row's id is its index
  created,    \* per session row, the parameters Create was called with
  touched,    \* per session row, whether a status update has been applied to it
  sshKeys,    \* persisted SSH key rows
  provKeys,   \* the provider's key store
  provNodes,  \* the provider's instances
  watchers,   \* the watcher tasks started so far
  ret         \* the outcome of the last service call that returned

vars == <<sessions, created, touched, sshKeys, provKeys, provNodes, watchers, ret>>

\* What a call returns: the error and the sessions it hands back.
\* log is the message the call logged at error level ("" when it logged none).
Ret(op, id, e, val) ==
  [op |-> op, id |-> id, projectID |-> "", listTerminated |-> FALSE, err |-> e, val |-> val,
   log |-> ""]

\* A types.Session as returned to the caller (unset fields hold zero values).
SessionView(id, keyName, st, nodeTypeID, region, provider) ==
  [id |-> id, keyName |-> keyName, status |-> st, nodeTypeID |-> nodeTypeID,
   region |-> region, provider |-> provider]

\* The responses of every external call one service call makes.
EnvOK == [apiKey |-> TRUE, dbGet |-> FALSE, dbByName |-> FALSE, dbByPk |-> FALSE, dbSave |-> FALSE,
          genName |-> "uw:alpha", genKey |-> KeyB, listKeys |-> OK200, addKey |-> OK200,
          catalog |-> CatalogXY, listTypes |-> OK200, launch |-> OK200, noIds |-> FALSE,
          terminate |-> OK200, dbCreate |-> FALSE, dbUpdate |-> FALSE]

\* The environments each service call is run under: EnvOK, and EnvOK with one
\* of the external calls it makes answering differently.
CreateEnvs ==
  {EnvOK, [EnvOK EXCEPT !.apiKey = FALSE], [EnvOK EXCEPT !.dbByName = TRUE],
   [EnvOK EXCEPT !.dbByPk = TRUE], [EnvOK EXCEPT !.dbSave = TRUE],
   [EnvOK EXCEPT !.listKeys = Resp(401, OtherMsg)], [EnvOK EXCEPT !.addKey = Resp(400, OtherMsg)],
   [EnvOK EXCEPT !.listTypes = Resp(403, OtherMsg)], [EnvOK EXCEPT !.catalog = CatalogOnlyX],
   [EnvOK EXCEPT !.launch = Resp(400, CapacityMsg)], [EnvOK EXCEPT !.launch = Resp(500, "")],
   [EnvOK EXCEPT !.noIds = TRUE], [EnvOK EXCEPT !.dbCreate = TRUE]}
ReadEnvs == {EnvOK, [EnvOK EXCEPT !.dbGet = TRUE]}
WatchEnvs == ReadEnvs \cup {[EnvOK EXCEPT !.apiKey = FALSE]}
TerminateEnvs ==
  WatchEnvs \cup {[EnvOK EXCEPT !.terminate = Resp(404, OtherMsg)], [EnvOK EXCEPT !.terminate = Resp(0, "")],
                  [EnvOK EXCEPT !.dbUpdate = TRUE]}

\* The session ids a caller may name: every persisted one and one that is not.
SessionIDs == 1..(MaxSessions + 1)

\* ------------------------------------------------------- persistence port
\* SessionCreate: inserts the row with the default status and returns its id.
SessionCreate(rows, p) ==
  Append(rows, [id |-> Len(rows) + 1, nodeID |-> p.nodeID, createdBy |-> p.createdBy,
                projectID |-> p.projectID, provider |-> p.provider, region |-> p.region,
                sshKeyName |-> p.sshKeyName, status |-> StatusInitializing])

\* Fault variant of SessionStatusUpdate: a terminated row is left as it is.
SessionStatusUpdate_KeepTerminated(rows, id, st, fault) ==
  IF fault \/ st \notin Statuses
  THEN [err |-> DBErr, rows |-> rows]
  ELSE [err |-> NoErr,
        rows |-> [i \in 1..Len(rows) |->
                    IF rows[i].id = id /\ rows[i].status # StatusTerminated
                    THEN [rows[i] EXCEPT !.status = st] ELSE rows[i]]]

\* Fault variant of SessionStatusUpdate: the update has no where clause.
SessionStatusUpdate_AllRows(rows, id, st, fault) ==
  IF fault \/ st \notin Statuses
  THEN [err |-> DBErr, rows |-> rows]
  ELSE [err |-> NoErr, rows |-> [i \in 1..Len(rows) |-> [rows[i] EXCEPT !.status = st]]]

\* SessionStatusUpdate: update sessions set status = $2 where id = $1, with no
\* condition on the current status; a value outside the status enum is rejected.
SessionStatusUpdate(rows, id, st, fault) ==
  IF fault \/ st \notin Statuses
  THEN [err |-> DBErr, rows |-> rows]
  ELSE [err |-> NoErr,
        rows |-> [i \in 1..Len(rows) |-> IF rows[i].id = id THEN [rows[i] EXCEPT !.status = st] ELSE rows[i]]]

\* The ghost flag of the row a successful status update hits.
Touch(t, id, e) == [i \in 1..Len(t) |-> t[i] \/ (i = id /\ ~IsErr(e))]

\* ---------------------------------------------------------- Session Service
\* The parameters of a session-creation request.
BaseParams ==
  [provider |-> LambdaLabsProvider, nodeTypeID |-> "Y", region |-> "us-east",
   name |-> "k1", publicKey |-> KeyA]
CreateParams ==
  {[BaseParams EXCEPT !.provider = pv] : pv \in Providers}
  \cup {[BaseParams EXCEPT !.nodeTypeID = "X", !.region = "us-west"]}
  \cup {[BaseParams EXCEPT !.nodeTypeID = t, !.region = Nil] : t \in NodeTypes}
  \cup {[BaseParams EXCEPT !.name = n, !.publicKey = k] : n \in {Nil, "k1"}, k \in {Nil, KeyA}}
\* The creation requests: the base request for every project and every
\* parameter variation under EnvOK, and the base request (with and without a
\* region) under every environment.
CreateCalls ==
  {<<pr, BaseParams, EnvOK>> : pr \in Projects}
  \cup {<<"p1", q, EnvOK>> : q \in CreateParams}
  \cup {<<"p1", [BaseParams EXCEPT !.region = r], e>> : r \in {"us-east", Nil}, e \in CreateEnvs}

\* Fault variant of CreatePersist: the row is inserted whatever the steps returned.
CreatePersist_Always(rows, stepErr, dbp, dbFault) ==
  IF dbFault THEN rows ELSE SessionCreate(rows, dbp)

\* The session rows after Create's steps: the row is inserted once the
\* Runtime, the credentials and the node are there (stepErr is the error of
\* the first of these steps that failed) and unless the insert itself fails.
CreatePersist(rows, stepErr, dbp, dbFault) ==
  IF IsErr(stepErr) \/ dbFault THEN rows ELSE SessionCreate(rows, dbp)

\* Fault variant of CreateOnPersistFailure: the node is terminated again.
CreateOnPersistFailure_Rollback(before, launched) ==
  [i \in 1..Len(launched) |-> [launched[i] EXCEPT !.running = i <= Len(before)]]

\* The provider's instances after SessionCreate failed, before the instances
\* Create found and launched the ones InitNode left: Create returns the
\* error, the instances stay as InitNode left them.
CreateOnPersistFailure(before, launched) == launched

\* SessionService.Create(ctx, projectID, params) of the service of account
\* (s.srv.cid) as a function of the state it reads: the error, the session
\* returned and every store afterwards.
CreateResultFor(account, rows, keys, pkeys, nodes, projectID, params, env) ==
  LET rt == Initialize(params.provider, env.apiKey)
      Finish(cred, reg, init) ==
        LET node == init.node
            dbp == [nodeID |-> node.id, createdBy |-> account, projectID |-> projectID,
                    provider |-> params.provider, region |-> node.region,
                    sshKeyName |-> cred.key.name]
            session == SessionView(Len(rows) + 1, node.keyPair.name, StatusInitializing,
                                   node.typeID, node.region, node.provider)
            stepErr == IF IsErr(rt) THEN Wrap("failed to create runtime", rt)
                       ELSE IF IsErr(cred.err) THEN Wrap("failed to setup credentials", cred.err)
                       ELSE IF IsErr(reg.err) THEN Wrap("failed to register credentials", reg.err)
                       ELSE IF IsErr(init.err) THEN Wrap("failed to init node", init.err)
                       ELSE NoErr
            after == CreatePersist(rows, stepErr, dbp, env.dbCreate)
            Out(e, val, k, pk, n) ==
              [err |-> e, val |-> val, rows |-> after, keys |-> k, pkeys |-> pk, nodes |-> n]
        IN IF IsErr(rt) THEN Out(stepErr, <<>>, keys, pkeys, nodes)
           ELSE IF IsErr(cred.err) THEN Out(stepErr, <<>>, keys, pkeys, nodes)
           ELSE IF IsErr(reg.err) THEN Out(stepErr, <<>>, cred.keys, pkeys, nodes)
           ELSE IF IsErr(init.err) THEN Out(stepErr, <<>>, cred.keys, reg.pkeys, nodes)
           ELSE IF env.dbCreate
             THEN Out(Wrap("failed to create session in db", DBErr), <<>>, cred.keys, reg.pkeys,
                      CreateOnPersistFailure(nodes, init.nodes))
           ELSE Out(NoErr, <<session>>, cred.keys, reg.pkeys, init.nodes)
      Node(cred, reg) ==
        LET Fin(init) == Finish(cred, reg, init)
        IN With(InitNode(nodes, cred.key, params.nodeTypeID, params.region, env), Fin)
      Register(cred) ==
        LET Nd(reg) == Node(cred, reg)
        IN With(registerCredentials(pkeys, cred.key, env), Nd)
  IN With(fetchCredentials(keys, account, params.name, params.publicKey, env), Register)

\* SessionService.Create of the service of the one account of the
\* specifications Spec, SpecWatch and SpecRace.
CreateResult(rows, keys, pkeys, nodes, projectID, params, env) ==
  CreateResultFor(Account, rows, keys, pkeys, nodes, projectID, params, env)

Create(projectID, params, env) ==
  /\ Len(sessions) < MaxSessions
  /\ Len(provNodes) < MaxNodes
  /\ \E out \in {CreateResult(sessions, sshKeys, provKeys, provNodes, projectID, params, env)} :
     LET isNew == Len(out.rows) > Len(sessions)
     IN
        /\ sessions' = out.rows
        /\ sshKeys' = out.keys
        /\ provKeys' = out.pkeys
        /\ provNodes' = out.nodes
        /\ created' = IF isNew
                      THEN Append(created, [provider |-> params.provider, region |-> params.region,
                                            nodeTypeID |-> params.nodeTypeID])
                      ELSE created
        /\ touched' = IF isNew THEN Append(touched, FALSE) ELSE touched
        /\ ret' = Ret("Create", 0, out.err, out.val)
        /\ UNCHANGED watchers

\* Fault variant of SessionNotFound: the missing row reported as a plain wrapped error.
SessionNotFound_Plain == PlainErr("session not found")

\* &types.Error{Code: http.StatusNotFound, Message: "Session not found"}
SessionNotFound == TypedErr(404, "Session not found")

\* MxSessionGet: the session row joined with its SSH key; 0 for sql.ErrNoRows.
MxSessionGet(rows, id) == LET Match(r) == r.id = id IN FirstIndex(rows, Match)

\* SessionService.Get(ctx, sessionID)
GetResult(rows, id, env) ==
  LET i == MxSessionGet(rows, id)
      dbs == rows[i]
  IN IF env.dbGet THEN [err |-> Wrap("failed to get session from db", DBErr), val |-> <<>>]
     ELSE IF i = 0 THEN [err |-> SessionNotFound, val |-> <<>>]
     ELSE [err |-> NoErr,
           val |-> <<SessionView(id, dbs.sshKeyName, dbs.status, dbs.nodeID, dbs.region, dbs.provider)>>]

Get(id, env) ==
  LET out == GetResult(sessions, id, env)
  IN /\ ret' = Ret("Get", id, out.err, out.val)
     /\ UNCHANGED <<sessions, created, touched, sshKeys, provKeys, provNodes, watchers>>

\* The first n elements of q.
Take(q, n) == SubSeq(q, 1, IF Len(q) < n THEN Len(q) ELSE n)
\* q without its first n elements.
Drop(q, n) == SubSeq(q, n + 1, Len(q))
\* q in reverse order.
Reverse(q) == [i \in 1..Len(q) |-> q[Len(q) + 1 - i]]

\* Fault variant of SessionsGet: the limit is not applied.
SessionsGet_NoLimit(rows, projectID, limit, offset) ==
  LET Mine(r) == r.projectID = projectID
  IN Drop(SelectSeq(Reverse(rows), Mine), offset)

\* SessionsGet: the project's rows, most recently created first, limit and offset applied.
SessionsGet(rows, projectID, limit, offset) ==
  LET Mine(r) == r.projectID = projectID
  IN Take(Drop(SelectSeq(Reverse(rows), Mine), offset), limit)

\* types.DBSessionStatusToAPIStatus
DBSessionStatusToAPIStatus(st) ==
  CASE st = "initializing" -> StatusInitializing
    [] st = "active" -> StatusActive
    [] st = "terminated" -> StatusTerminated
    [] OTHER -> ""

\* Fault variant of ListSkips: the filter forgotten.
ListSkips_Never(listTerminated, st) == FALSE

\* if !listTerminated && s.Status == db.UnweaveSessionStatusTerminated { continue }
ListSkips(listTerminated, st) == ~listTerminated /\ st = StatusTerminated

\* SessionService.List(ctx, projectID, listTerminated)
ListResult(rows, projectID, listTerminated, env) ==
  LET got == SessionsGet(rows, projectID, ListLimit, ListOffset)
      Keep(r) == ~ListSkips(listTerminated, r.status)
      kept == SelectSeq(got, Keep)
  IN IF env.dbGet THEN [err |-> Wrap("failed to get sessions from db", DBErr), val |-> <<>>]
     ELSE [err |-> NoErr,
           val |-> [i \in 1..Len(kept) |->
                      SessionView(kept[i].id, kept[i].sshKeyName,
                                  DBSessionStatusToAPIStatus(kept[i].status), "", "", "")]]

List(projectID, listTerminated, env) ==
  LET out == ListResult(sessions, projectID, listTerminated, env)
  IN /\ ret' = [Ret("List", 0, out.err, out.val) EXCEPT !.projectID = projectID,
                                                      !.listTerminated = listTerminated]
     /\ UNCHANGED <<sessions, created, touched, sshKeys, provKeys, provNodes, watchers>>

\* SessionGet: select * from sessions where id = $1; 0 for sql.ErrNoRows.
SessionGet(rows, id) == LET Match(r) == r.id = id IN FirstIndex(rows, Match)

\* The context a caller hands to Watch, and context.Background().
CallerContext == "caller"
BackgroundContext == "background"

\* A watcher task as SessionService.Watch starts it: at the select of its
\* loop, nothing received, nothing written, its context live. chan is the
\* status the feed is sending on statusch ("" when it is sending nothing),
\* emitted the statuses the feed has sent, written the statuses the task has
\* persisted, sawErr whether a write of the task failed or errch delivered,
\* parent the context the task's context was derived from, errSent whether
\* the feed is sending an error on errch, closed whether the Runtime has
\* closed both feeds, request the state of the HTTP request whose handler
\* started the task ("" when Watch was called directly).
NewWatcher(id, nodeID) ==
  [sid |-> id, nodeID |-> nodeID, pc |-> "select", status |-> "", chan |-> "", emitted |-> <<>>,
   written |-> <<>>, sawErr |-> FALSE, exit |-> "", ctxDone |-> FALSE,
   parent |-> CallerContext, errSent |-> FALSE, closed |-> FALSE, request |-> ""]

\* Fault variant of WatchResult: the background task is started before the
\* session is loaded and the Runtime initialized.
WatchResult_Eager(rows, ws, id, env) ==
  LET i == SessionGet(rows, id)
      rt == Initialize(IF i = 0 THEN LambdaLabsProvider ELSE rows[i].provider, env.apiKey)
      started == Append(ws, NewWatcher(id, IF i = 0 THEN "" ELSE rows[i].nodeID))
  IN IF env.dbGet THEN [err |-> Wrap("failed to get session from db", DBErr), watchers |-> started]
     ELSE IF i = 0 THEN [err |-> SessionNotFound, watchers |-> started]
     ELSE IF IsErr(rt) THEN [err |-> Wrap("failed to initialize runtime", rt), watchers |-> started]
     ELSE [err |-> NoErr, watchers |-> started]

\* SessionService.Watch(ctx, sessionID) up to the start of the background task.
WatchResult(rows, ws, id, env) ==
  LET i == SessionGet(rows, id)
      session == rows[i]
      rt == Initialize(session.provider, env.apiKey)
  IN IF env.dbGet THEN [err |-> Wrap("failed to get session from db", DBErr), watchers |-> ws]
     ELSE IF i = 0 THEN [err |-> SessionNotFound, watchers |-> ws]
     ELSE IF IsErr(rt) THEN [err |-> Wrap("failed to initialize runtime", rt), watchers |-> ws]
     ELSE [err |-> NoErr, watchers |-> Append(ws, NewWatcher(id, session.nodeID))]

Watch(id, env, maxWatchers) ==
  LET out == WatchResult(sessions, watchers, id, env)
  IN /\ Len(watchers) < maxWatchers
     /\ watchers' = out.watchers
     /\ ret' = Ret("Watch", id, out.err, <<>>)
     /\ UNCHANGED <<sessions, created, touched, sshKeys, provKeys, provNodes>>

\* Number of statuses the status feeds have emitted so far.
RECURSIVE FeedTotal(_)
FeedTotal(ws) == IF ws = <<>> THEN 0 ELSE Len(Head(ws).emitted) + FeedTotal(Tail(ws))

\* The Runtime's status feed of watcher n sends st on statusch; it sends
\* nothing once the context it was given is cancelled or the feeds are closed.
FeedEmit(n, st, maxFeed) ==
  /\ n \in 1..Len(watchers)
  /\ watchers[n].pc # "start"
  /\ watchers[n].chan = ""
  /\ ~watchers[n].ctxDone
  /\ ~watchers[n].closed
  /\ FeedTotal(watchers) < maxFeed
  /\ watchers' = [watchers EXCEPT ![n].chan = st, ![n].emitted = Append(@, st)]
  /\ UNCHANGED <<sessions, created, touched, sshKeys, provKeys, provNodes, ret>>

\* Fault variant of Exit: the task returns without cancelling its context.
Exit_NoCancel(w, why) == [w EXCEPT !.pc = "done", !.exit = why]

\* The watcher task leaves its loop; the deferred cancel() runs.
Exit(w, why) == [w EXCEPT !.pc = "done", !.exit = why, !.ctxDone = TRUE]

\* Fault variant of WatcherRecv: the status is read without being taken off the channel.
WatcherRecv_Peek(w) == [w EXCEPT !.pc = "write", !.status = w.chan]

\* case status := <-statusch: the status the feed is sending, the zero value
\* when the channel is closed.
WatcherRecv(w) == [w EXCEPT !.pc = "write", !.status = w.chan, !.chan = ""]

WatcherRecvStatus(n) ==
  /\ n \in 1..Len(watchers)
  /\ watchers[n].pc = "select"
  /\ watchers[n].chan # "" \/ watchers[n].closed
  /\ watchers' = [watchers EXCEPT ![n] = WatcherRecv(watchers[n])]
  /\ UNCHANGED <<sessions, created, touched, sshKeys, provKeys, provNodes, ret>>

\* Fault variant of WatcherAfterWrite: Terminated does not end the loop.
WatcherAfterWrite_NoStop(w, e) ==
  IF IsErr(e) THEN Exit(w, "writefail") ELSE [w EXCEPT !.pc = "select"]

\* Fault variant of WatcherAfterWrite: a failed write is retried.
WatcherAfterWrite_Retry(w, e) ==
  IF IsErr(e) THEN [w EXCEPT !.pc = "write"]
  ELSE IF w.status = StatusTerminated THEN Exit(w, "terminated")
  ELSE [w EXCEPT !.pc = "select"]

\* Where the watcher goes after db.Q.SessionStatusUpdate returned e for the
\* status it holds: out of the loop on a failed write or on Terminated.
WatcherAfterWrite(w, e) ==
  IF IsErr(e) THEN Exit(w, "writefail")
  ELSE IF w.status = StatusTerminated THEN Exit(w, "terminated")
  ELSE [w EXCEPT !.pc = "select"]

\* The body of case status := <-statusch: persist the received status. The
\* write is made with the task's context and fails when that is cancelled.
WatcherWrite(n, fault) ==
  /\ n \in 1..Len(watchers)
  /\ watchers[n].pc = "write"
  /\ LET w == watchers[n]
         upd == SessionStatusUpdate(sessions, w.sid, w.status, fault \/ w.ctxDone)
         noted == [w EXCEPT !.written = IF IsErr(upd.err) THEN @ ELSE Append(@, w.status),
                            !.sawErr = @ \/ IsErr(upd.err)]
     IN /\ sessions' = upd.rows
        /\ touched' = Touch(touched, w.sid, upd.err)
        /\ watchers' = [watchers EXCEPT ![n] = WatcherAfterWrite(noted, upd.err)]
  /\ UNCHANGED <<created, sshKeys, provKeys, provNodes, ret>>

\* case e := <-errch
WatcherRecvErr(n) ==
  /\ n \in 1..Len(watchers)
  /\ watchers[n].pc = "select"
  /\ watchers' = [watchers EXCEPT ![n] = Exit([watchers[n] EXCEPT !.sawErr = TRUE], "errfeed")]
  /\ UNCHANGED <<sessions, created, touched, sshKeys, provKeys, provNodes, ret>>

\* case <-ctx.Done(): the context handed to Watch was cancelled from outside
\* (context.Background() never is) and the task sees it, in one step.
WatcherCtxDone(n) ==
  /\ n \in 1..Len(watchers)
  /\ watchers[n].pc = "select"
  /\ watchers[n].parent # BackgroundContext
  /\ watchers' = [watchers EXCEPT ![n] = Exit(watchers[n], "cancelled")]
  /\ UNCHANGED <<sessions, created, touched, sshKeys, provKeys, provNodes, ret>>

\* The caller cancels the context it handed to Watch.
CancelContext(n) ==
  /\ n \in 1..Len(watchers)
  /\ watchers[n].pc \in {"select", "write"}
  /\ watchers[n].parent # BackgroundContext
  /\ ~watchers[n].ctxDone
  /\ watchers' = [watchers EXCEPT ![n].ctxDone = TRUE]
  /\ UNCHANGED <<sessions, created, touched, sshKeys, provKeys, provNodes, ret>>

\* case <-ctx.Done(), taken by the task once its context is cancelled.
WatcherSeesDone(n) ==
  /\ n \in 1..Len(watchers)
  /\ watchers[n].pc = "select"
  /\ watchers[n].ctxDone
  /\ watchers' = [watchers EXCEPT ![n] = Exit(watchers[n], "cancelled")]
  /\ UNCHANGED <<sessions, created, touched, sshKeys, provKeys, provNodes, ret>>

\* The Runtime's feed of watcher n sends an error on errch.
FeedError(n) ==
  /\ n \in 1..Len(watchers)
  /\ watchers[n].pc \in {"select", "write"}
  /\ ~watchers[n].ctxDone
  /\ ~watchers[n].closed
  /\ ~watchers[n].errSent
  /\ watchers' = [watchers EXCEPT ![n].errSent = TRUE]
  /\ UNCHANGED <<sessions, created, touched, sshKeys, provKeys, provNodes, ret>>

\* case e := <-errch, taken by the task when the feed is sending an error or
\* has closed errch (then e is nil).
WatcherRecvErrSent(n) ==
  /\ n \in 1..Len(watchers)
  /\ watchers[n].pc = "select"
  /\ watchers[n].errSent \/ watchers[n].closed
  /\ watchers' = [watchers EXCEPT ![n] = Exit([watchers[n] EXCEPT !.sawErr = TRUE, !.errSent = FALSE],
                                              "errfeed")]
  /\ UNCHANGED <<sessions, created, touched, sshKeys, provKeys, provNodes, ret>>

\* Whether the Runtime may close the feeds of watcher w: a terminal status
\* was the last it sent and has been received, or its context is cancelled.
FeedMayClose(w) ==
  /\ w.chan = ""
  /\ w.ctxDone \/ (w.emitted # <<>> /\ w.emitted[Len(w.emitted)] = StatusTerminated)

\* The Runtime closes statusch and errch of watcher n.
FeedClose(n) ==
  /\ n \in 1..Len(watchers)
  /\ watchers[n].pc \in {"select", "write"}
  /\ ~watchers[n].closed
  /\ FeedMayClose(watchers[n])
  /\ watchers' = [watchers EXCEPT ![n].closed = TRUE]
  /\ UNCHANGED <<sessions, created, touched, sshKeys, provKeys, provNodes, ret>>

\* Fault variant of TerminateMark: the row is marked whatever TerminateNode returned.
TerminateMark_Always(rows, id, termErr, fault) ==
  SessionStatusUpdate(rows, id, StatusTerminated, fault)

\* The status write of Terminate: made once TerminateNode has returned
\* termErr = nil, not made otherwise.
TerminateMark(rows, id, termErr, fault) ==
  IF IsErr(termErr) THEN [err |-> NoErr, rows |-> rows]
  ELSE SessionStatusUpdate(rows, id, StatusTerminated, fault)

TerminateLogMsg == "Failed to set session as terminated"

\* Fault variant of TerminateReturn: the failed status write is returned.
TerminateReturn_Surface(updErr) == updErr

\* What Terminate returns after its status write returned updErr: the failure
\* is logged, not returned.
TerminateReturn(updErr) == NoErr

\* Fault variant of TerminateResult: a session already Terminated is left
\* alone, TerminateNode is not called again.
TerminateResult_SkipTerminated(rows, nodes, id, env) ==
  LET i == SessionGet(rows, id)
      sess == rows[i]
      rt == Initialize(sess.provider, env.apiKey)
      term == TerminateNode(nodes, sess.nodeID, env.terminate)
      upd == TerminateMark(rows, id, term.err, env.dbUpdate)
      Out(e, r, n, u, l) == [err |-> e, rows |-> r, nodes |-> n, written |-> u, log |-> l]
  IN IF env.dbGet THEN Out(Wrap("failed to fetch session from db", DBErr), rows, nodes, FALSE, "")
     ELSE IF i = 0 THEN Out(SessionNotFound, rows, nodes, FALSE, "")
     ELSE IF sess.status = StatusTerminated THEN Out(NoErr, rows, nodes, FALSE, "")
     ELSE IF IsErr(rt) THEN Out(Wrap("failed to create runtime", rt), rows, nodes, FALSE, "")
     ELSE IF IsErr(term.err) THEN Out(Wrap("failed to terminate node", term.err), upd.rows, nodes, FALSE, "")
     ELSE Out(TerminateReturn(upd.err), upd.rows, term.nodes, ~IsErr(upd.err),
              IF IsErr(upd.err) THEN TerminateLogMsg ELSE "")

\* SessionService.Terminate(ctx, sessionID)
TerminateResult(rows, nodes, id, env) ==
  LET i == SessionGet(rows, id)
      sess == rows[i]
      rt == Initialize(sess.provider, env.apiKey)
      term == TerminateNode(nodes, sess.nodeID, env.terminate)
      upd == TerminateMark(rows, id, term.err, env.dbUpdate)
      Out(e, r, n, u, l) == [err |-> e, rows |-> r, nodes |-> n, written |-> u, log |-> l]
  IN IF env.dbGet THEN Out(Wrap("failed to fetch session from db", DBErr), rows, nodes, FALSE, "")
     ELSE IF i = 0 THEN Out(SessionNotFound, rows, nodes, FALSE, "")
     ELSE IF IsErr(rt) THEN Out(Wrap("failed to create runtime", rt), rows, nodes, FALSE, "")
     ELSE IF IsErr(term.err) THEN Out(Wrap("failed to terminate node", term.err), upd.rows, nodes, FALSE, "")
     ELSE Out(TerminateReturn(upd.err), upd.rows, term.nodes, ~IsErr(upd.err),
              IF IsErr(upd.err) THEN TerminateLogMsg ELSE "")

Terminate(id, env) ==
  \E out \in {TerminateResult(sessions, provNodes, id, env)} :
     /\ sessions' = out.rows
     /\ provNodes' = out.nodes
     /\ touched' = [i \in 1..Len(touched) |-> touched[i] \/ (i = id /\ out.written)]
     /\ ret' = [Ret("Terminate", id, out.err, <<>>) EXCEPT !.log = out.log]
     /\ UNCHANGED <<created, sshKeys, provKeys, watchers>>

\* ----------------------------------------------------------- specification
Init ==
  /\ sessions = <<>>
  /\ created = <<>>
  /\ touched = <<>>
  /\ sshKeys = <<>>
  /\ provKeys = <<>>
  /\ provNodes = <<>>
  /\ watchers = <<>>
  /\ ret = Ret("none", 0, NoErr, <<>>)

Next ==
  \/ \E c \in CreateCalls : Create(c[1], c[2], c[3])
  \/ \E id \in SessionIDs, env \in ReadEnvs : Get(id, env)
  \/ \E pr \in Projects, lt \in BOOLEAN, env \in ReadEnvs : List(pr, lt, env)
  \/ \E id \in SessionIDs, env \in TerminateEnvs : Terminate(id, env)

Spec == Init /\ [][Next]_vars

\* The watcher specification: one session has been created (the base request
\* under EnvOK); Watch, the watcher tasks, their feeds and Terminate run on it.
FirstSession == CreateResult(<<>>, <<>>, <<>>, <<>>, "p1", BaseParams, EnvOK)

InitWatch ==
  /\ sessions = FirstSession.rows
  /\ created = <<[provider |-> BaseParams.provider, region |-> BaseParams.region,
                  nodeTypeID |-> BaseParams.nodeTypeID]>>
  /\ touched = <<FALSE>>
  /\ sshKeys = FirstSession.keys
  /\ provKeys = FirstSession.pkeys
  /\ provNodes = FirstSession.nodes
  /\ watchers = <<>>
  /\ ret = Ret("Create", 0, FirstSession.err, FirstSession.val)

WatchIDs == 1..2

\* One watcher task, its feed and Terminate.
NextWatch ==
  \/ \E id \in WatchIDs, env \in WatchEnvs : Watch(id, env, 1)
  \/ \E st \in Statuses : FeedEmit(1, st, MaxFeed)
  \/ WatcherRecvStatus(1)
  \/ \E fault \in BOOLEAN : WatcherWrite(1, fault)
  \/ WatcherRecvErr(1)
  \/ WatcherCtxDone(1)
  \/ \E id \in WatchIDs, env \in TerminateEnvs : Terminate(id, env)

SpecWatch == InitWatch /\ [][NextWatch]_vars

\* Several watcher tasks of the same session, their feeds and Terminate.
RaceEnvs == {EnvOK, [EnvOK EXCEPT !.dbUpdate = TRUE], [EnvOK EXCEPT !.terminate = Resp(404, OtherMsg)]}

NextRace ==
  \/ Watch(1, EnvOK, MaxWatchers)
  \/ \E n \in 1..MaxWatchers, st \in Statuses : FeedEmit(n, st, RaceFeed)
  \/ \E n \in 1..MaxWatchers : WatcherRecvStatus(n)
  \/ \E n \in 1..MaxWatchers, fault \in BOOLEAN : WatcherWrite(n, fault)
  \/ \E n \in 1..MaxWatchers : WatcherRecvErr(n)
  \/ \E n \in 1..MaxWatchers : WatcherCtxDone(n)
  \/ \E env \in RaceEnvs : Terminate(1, env)

SpecRace == InitWatch /\ [][NextRace]_vars

\* Whether the provider still runs the instance nodeID.
NodeRunning(nodes, nodeID) == \E i \in 1..Len(nodes) : nodes[i].id = nodeID /\ nodes[i].running

\* The status feed of watcher n reports the provider's instance: whatever
\* status while the instance runs, Terminated once it has been terminated.
FeedEmitLive(n, st, maxFeed) ==
  /\ n \in 1..Len(watchers)
  /\ NodeRunning(provNodes, watchers[n].nodeID) \/ st = StatusTerminated
  /\ FeedEmit(n, st, maxFeed)

\* The steps of watcher task n.
WatcherStep(n) ==
  \/ WatcherRecvStatus(n)
  \/ \E fault \in BOOLEAN : WatcherWrite(n, fault)
  \/ WatcherRecvErrSent(n)
  \/ WatcherSeesDone(n)

\* One watcher task with the feeds the Runtime gave it (statuses, errors,
\* closing), the caller's cancellation of its context, and Terminate.
NextFeed ==
  \/ Watch(1, EnvOK, 1)
  \/ \E st \in Statuses : FeedEmitLive(1, st, MaxFeed)
  \/ FeedError(1)
  \/ FeedClose(1)
  \/ CancelContext(1)
  \/ WatcherStep(1)
  \/ \E env \in RaceEnvs : Terminate(1, env)

SpecFeed == InitWatch /\ [][NextFeed]_vars

\* The scheduling of a watcher task: the goroutine is not starved, so a
\* receive or a write that stays possible is made; the select chooses among
\* its ready cases at random, so a case that is ready again and again is
\* taken.
WatcherFairness(n) ==
  /\ WF_vars(WatcherRecvStatus(n))
  /\ WF_vars(\E fault \in BOOLEAN : WatcherWrite(n, fault))
  /\ SF_vars(WatcherRecvErrSent(n))
  /\ SF_vars(WatcherSeesDone(n))

SpecFeedFair == InitWatch /\ [][NextFeed]_vars /\ WatcherFairness(1)

\* ------------------------------------------------ the session-creation handler
\* The goroutine the SessionsCreate handler starts, before it has called
\* Watch: it will watch session id under a context derived from parent; the
\* request that started it is still open.
StartTask(id, parent) ==
  [NewWatcher(id, "") EXCEPT !.pc = "start", !.parent = parent, !.request = "open"]

\* Fault variant of HandlerStartsWatch: the goroutine is started whatever Create returned.
HandlerStartsWatch_Always(err) == TRUE

\* Whether the handler goes on to start the goroutine: not when Create
\* returned an error (the error is rendered and the handler returns).
HandlerStartsWatch(err) == ~IsErr(err)

\* Fault variant of HandlerWatchContext: the goroutine watches under the request's context.
HandlerWatchContext_Request == "request"

\* The context the goroutine hands to Watch: c := context.Background()
HandlerWatchContext == BackgroundContext

\* The SessionsCreate handler up to the go statement: Create, and on success
\* the goroutine that will call Watch for the session Create returned.
SessionsCreate(projectID, params, env) ==
  /\ Len(sessions) < MaxSessions
  /\ Len(provNodes) < MaxNodes
  /\ Len(watchers) < MaxWatchers
  /\ \E out \in {CreateResult(sessions, sshKeys, provKeys, provNodes, projectID, params, env)} :
     LET isNew == Len(out.rows) > Len(sessions)
         sessionID == IF out.val = <<>> THEN Len(out.rows) + 1 ELSE out.val[1].id
     IN
        /\ sessions' = out.rows
        /\ sshKeys' = out.keys
        /\ provKeys' = out.pkeys
        /\ provNodes' = out.nodes
        /\ created' = IF isNew
                      THEN Append(created, [provider |-> params.provider, region |-> params.region,
                                            nodeTypeID |-> params.nodeTypeID])
                      ELSE created
        /\ touched' = IF isNew THEN Append(touched, FALSE) ELSE touched
        /\ watchers' = IF HandlerStartsWatch(out.err)
                       THEN Append(watchers, StartTask(sessionID, HandlerWatchContext))
                       ELSE watchers
        /\ ret' = Ret("SessionsCreate", 0, out.err, out.val)

\* render.JSON(w, r, session) and the return of the handler: the request is
\* answered and its context cancelled, wherever the goroutine stands.
HandlerReturn(n) ==
  /\ n \in 1..Len(watchers)
  /\ watchers[n].request = "open"
  /\ watchers' = [watchers EXCEPT ![n].request = "done",
                                  ![n].ctxDone = @ \/ watchers[n].parent = "request"]
  /\ UNCHANGED <<sessions, created, touched, sshKeys, provKeys, provNodes, ret>>

\* The goroutine calls srv.Session.Watch(c, session.ID); an error is logged.
BackgroundWatch(n, env) ==
  /\ n \in 1..Len(watchers)
  /\ watchers[n].pc = "start"
  /\ \E out \in {WatchResult(sessions, <<>>, watchers[n].sid, env)} :
        watchers' = [watchers EXCEPT ![n] =
                       IF IsErr(out.err)
                       THEN [@ EXCEPT !.pc = "done", !.exit = "watcherr"]
                       ELSE [out.watchers[1] EXCEPT !.parent = watchers[n].parent,
                                                    !.request = watchers[n].request,
                                                    !.ctxDone = watchers[n].ctxDone]]
  /\ UNCHANGED <<sessions, created, touched, sshKeys, provKeys, provNodes, ret>>

\* The handler and the goroutines it starts, beside Watch called directly
\* under a caller's context: the watcher tasks, their feeds, the caller's
\* cancellation.
NextHandler ==
  \/ \E env \in {EnvOK, [EnvOK EXCEPT !.launch = Resp(500, "")]} : SessionsCreate("p1", BaseParams, env)
  \/ \E n \in 1..MaxWatchers : HandlerReturn(n)
  \/ \E n \in 1..MaxWatchers, env \in ReadEnvs : BackgroundWatch(n, env)
  \/ \E id \in 1..MaxSessions : Watch(id, EnvOK, MaxWatchers)
  \/ \E n \in 1..MaxWatchers, st \in Statuses : FeedEmit(n, st, RaceFeed)
  \/ \E n \in 1..MaxWatchers : CancelContext(n)
  \/ \E n \in 1..MaxWatchers : WatcherRecvStatus(n)
  \/ \E n \in 1..MaxWatchers, fault \in BOOLEAN : WatcherWrite(n, fault)
  \/ \E n \in 1..MaxWatchers : WatcherRecvErr(n)
  \/ \E n \in 1..MaxWatchers : WatcherSeesDone(n)

SpecHandler == Init /\ [][NextHandler]_vars

\* ------------------------------------------- the adapter called directly
\* The specification of the provider adapter and the credential resolver:
\* their operations are called one at a time on the provider's key store,
\* the provider's instances and the persisted keys, all empty at first.

\* Public keys the provider generates, one per create request without a key.
GeneratedKeys == <<"ssh-ed25519 G1\n", "ssh-ed25519 G2\n", "ssh-ed25519 G3\n", "ssh-ed25519 G4\n">>
GeneratedKey(pkeys) == GeneratedKeys[Len(pkeys) + 1]

\* The outcome of a direct call: its operation, argument and environment, the
\* error and value it returned, the store it ran on, and whether the call
\* before it was the same call and succeeded (then prevOut is what that
\* call returned).
CallRet(op, arg, env, e, out, before) ==
  [op |-> op, arg |-> arg, env |-> env, err |-> e, out |-> out, before |-> before,
   again |-> ret.op = op /\ ret.arg = arg /\ ret.err = NoErr,
   prevOut |-> IF ret.op = op /\ ret.arg = arg /\ ret.err = NoErr THEN ret.out ELSE out]

\* The keys AddSSHKey and registerCredentials are called with.
AdapterKeys == {SSHKey(n, pk) : n \in KeyNames \cup {""}, pk \in {Nil, KeyA, KeyB}}

\* The environments of a call that lists and creates provider keys.
KeyEnvs ==
  {EnvOK, [EnvOK EXCEPT !.listKeys = Resp(401, OtherMsg)], [EnvOK EXCEPT !.listKeys = Resp(0, "")],
   [EnvOK EXCEPT !.listKeys = Resp(500, "")], [EnvOK EXCEPT !.addKey = Resp(400, OtherMsg)],
   [EnvOK EXCEPT !.addKey = Resp(403, OtherMsg)], [EnvOK EXCEPT !.addKey = Resp(0, "")],
   [EnvOK EXCEPT !.addKey = Resp(429, OtherMsg)]}

\* rt.AddSSHKey(ctx, key) on the provider's key store.
AddSSHKeyCall(key, env) ==
  \E out \in {AddSSHKey(provKeys, key, [env EXCEPT !.genKey = GeneratedKey(provKeys)])} :
     /\ Len(out.pkeys) <= MaxKeys
     /\ provKeys' = out.pkeys
     /\ ret' = CallRet("AddSSHKey", key, env, out.err, out.key, provKeys)
     /\ UNCHANGED <<sessions, created, touched, sshKeys, provNodes, watchers>>

\* registerCredentials(ctx, rt, key) on the provider's key store.
RegisterCredentialsCall(key, env) ==
  \E out \in {registerCredentials(provKeys, key, [env EXCEPT !.genKey = GeneratedKey(provKeys)])} :
     /\ Len(out.pkeys) <= MaxKeys
     /\ provKeys' = out.pkeys
     /\ ret' = CallRet("registerCredentials", key, env, out.err, key, provKeys)
     /\ UNCHANGED <<sessions, created, touched, sshKeys, provNodes, watchers>>

InitAdapter ==
  /\ sessions = <<>>
  /\ created = <<>>
  /\ touched = <<>>
  /\ sshKeys = <<>>
  /\ provKeys = <<>>
  /\ provNodes = <<>>
  /\ watchers = <<>>
  /\ ret = [op |-> "none", arg |-> NoKey, env |-> EnvOK, err |-> NoErr, out |-> NoKey,
            before |-> <<>>, again |-> FALSE, prevOut |-> NoKey]

NextAdapter ==
  \/ \E key \in AdapterKeys, env \in KeyEnvs : AddSSHKeyCall(key, env)
  \/ \E key \in AdapterKeys, env \in KeyEnvs : RegisterCredentialsCall(key, env)

SpecAdapter == InitAdapter /\ [][NextAdapter]_vars

\* --------------------------------------- the node operations called directly
\* The node types and regions InitNode is called with.
InitNodeArgs == {<<t, r>> : t \in NodeTypes \cup {"Z"}, r \in {Nil, "us-east"}}

\* The environments of a call that lists node types and launches.
NodeEnvs ==
  {EnvOK, [EnvOK EXCEPT !.catalog = CatalogFull], [EnvOK EXCEPT !.catalog = CatalogOnlyX],
   [EnvOK EXCEPT !.listTypes = Resp(403, OtherMsg)], [EnvOK EXCEPT !.listTypes = Resp(0, "")],
   [EnvOK EXCEPT !.launch = Resp(400, CapacityMsg)], [EnvOK EXCEPT !.launch = Resp(400, OtherMsg)],
   [EnvOK EXCEPT !.launch = Resp(401, OtherMsg)], [EnvOK EXCEPT !.launch = Resp(500, "")],
   [EnvOK EXCEPT !.launch = Resp(0, "")], [EnvOK EXCEPT !.launch = Resp(429, OtherMsg)],
   [EnvOK EXCEPT !.noIds = TRUE],
   [EnvOK EXCEPT !.launch = Resp(400, LowerCapacityMsg)], [EnvOK EXCEPT !.launch = Resp(400, QuotaMsg)],
   [EnvOK EXCEPT !.launch = Resp(400, CapacityMsg), !.listTypes = Resp(403, OtherMsg)],
   [EnvOK EXCEPT !.launch = Resp(400, CapacityMsg), !.catalog = CatalogFull]}

\* The responses of the terminate request.
TerminateResponses == {OK200} \cup FailResponses

\* rt.InitNode(ctx, key, nodeTypeID, region) on the provider's instances.
InitNodeCall(nodeTypeID, region, env) ==
  /\ Len(provNodes) < MaxLaunches
  /\ \E out \in {InitNode(provNodes, SSHKey("k1", KeyA), nodeTypeID, region, env)} :
        /\ provNodes' = out.nodes
        /\ ret' = CallRet("InitNode", <<nodeTypeID, region>>, env, out.err, out.node, provNodes)
  /\ UNCHANGED <<sessions, created, touched, sshKeys, provKeys, watchers>>

\* rt.TerminateNode(ctx, nodeID)
TerminateNodeCall(nodeID, resp) ==
  \E out \in {TerminateNode(provNodes, nodeID, resp)} :
     /\ provNodes' = out.nodes
     /\ ret' = CallRet("TerminateNode", nodeID, [EnvOK EXCEPT !.terminate = resp], out.err,
                       NoNode, provNodes)
     /\ UNCHANGED <<sessions, created, touched, sshKeys, provKeys, watchers>>

\* rt.ListNodeTypes(ctx)
ListNodeTypesCall(env) ==
  \E out \in {ListNodeTypes(env.catalog, env.listTypes)} :
     /\ ret' = CallRet("ListNodeTypes", NoNode, env, out.err, NoNode, provNodes)
     /\ UNCHANGED <<sessions, created, touched, sshKeys, provKeys, provNodes, watchers>>

\* rt.ListSSHKeys(ctx)
ListSSHKeysCall(env) ==
  \E out \in {ListSSHKeys(provKeys, env.listKeys)} :
     /\ ret' = CallRet("ListSSHKeys", NoNode, env, out.err, NoNode, provNodes)
     /\ UNCHANGED <<sessions, created, touched, sshKeys, provKeys, provNodes, watchers>>

NextNodes ==
  \/ \E a \in InitNodeArgs, env \in NodeEnvs : InitNodeCall(a[1], a[2], env)
  \/ \E i \in 1..(MaxLaunches + 1), resp \in TerminateResponses : TerminateNodeCall(InstanceIds[i], resp)
  \/ \E env \in NodeEnvs : ListNodeTypesCall(env)
  \/ \E env \in KeyEnvs : ListSSHKeysCall(env)
  \/ \E n \in {"k1", ""}, env \in KeyEnvs : AddSSHKeyCall(SSHKey(n, KeyA), env)

SpecNodes == InitAdapter /\ [][NextNodes]_vars

\* ------------------------------------ the credential resolver called directly
\* Names fetchCredentials generates, one per save without a supplied name.
GeneratedNames == <<"uw:alpha", "uw:beta", "uw:gamma", "uw:delta">>
GeneratedName(keys) == GeneratedNames[Len(keys) + 1]

\* The names and public keys fetchCredentials is called with.
FetchNames == KeyNames \cup {Nil, ""}
FetchKeys == PublicKeys \cup {Nil}

\* The environments of a fetchCredentials call: each persistence call failing.
FetchEnvs ==
  {EnvOK, [EnvOK EXCEPT !.dbByName = TRUE], [EnvOK EXCEPT !.dbByPk = TRUE],
   [EnvOK EXCEPT !.dbSave = TRUE]}

\* fetchCredentials(ctx, accountID, n, pk), the whole call at once.
FetchCredentialsCall(n, pk, env) ==
  \E out \in {fetchCredentials(sshKeys, Account, n, pk,
                               [env EXCEPT !.genName = GeneratedName(sshKeys)])} :
     /\ Len(out.keys) <= MaxKeys
     /\ sshKeys' = out.keys
     /\ ret' = CallRet("fetchCredentials", <<n, pk>>, env, out.err, out.key, sshKeys)
     /\ UNCHANGED <<sessions, created, touched, provKeys, provNodes, watchers>>

\* The end of a fetchCredentials call that ran concurrently with the others:
\* its lookups ran before any record was persisted (and found nothing), its
\* save runs now.
FetchCredentialsLateSave(n, pk, env) ==
  /\ pk # Nil
  /\ ParseAuthorizedKeyOK(pk)
  /\ \E out \in {fetchCredentialsSave(sshKeys, Account, n, pk,
                                      [env EXCEPT !.genName = GeneratedName(sshKeys)])} :
        /\ Len(out.keys) <= MaxKeys
        /\ sshKeys' = out.keys
        /\ ret' = CallRet("fetchCredentialsLate", <<n, pk>>, env, out.err, out.key, sshKeys)
  /\ UNCHANGED <<sessions, created, touched, provKeys, provNodes, watchers>>

NextCreds ==
  \/ \E n \in FetchNames, pk \in FetchKeys, env \in FetchEnvs : FetchCredentialsCall(n, pk, env)
  \/ \E n \in FetchNames, pk \in FetchKeys, env \in {EnvOK, [EnvOK EXCEPT !.dbSave = TRUE]} :
       FetchCredentialsLateSave(n, pk, env)

SpecCreds == InitAdapter /\ [][NextCreds]_vars

\* ------------------------------------------------------- the HTTP boundary
\* An error as errors.As walks it: the sequence of its links, outermost
\* first. A link is a message added by fmt.Errorf("...: %w", err) or a plain
\* error ("fmt"), or a *types.Error ("Error").
FmtLink(m) == [t |-> "fmt", code |-> 0, msg |-> m, suggestion |-> "", provider |-> ""]
ErrorLink(c, m, sg, pv) == [t |-> "Error", code |-> c, msg |-> m, suggestion |-> sg, provider |-> pv]

\* The chain of an error value of the service.
Chain(e) ==
  IF e.kind = "nil" THEN <<>>
  ELSE (IF e.kind = "plain" \/ e.ctx # e.msg THEN <<FmtLink(e.ctx)>> ELSE <<>>)
       \o (IF e.kind = "Error" THEN <<ErrorLink(e.code, e.msg, e.suggestion, e.provider)>> ELSE <<>>)
       \o (IF e.cause \notin {e.ctx, e.msg} THEN <<FmtLink(e.cause)>> ELSE <<>>)

\* errors.As(err, &e) with e a *types.Error: the index of the first link that
\* is one, 0 when the chain holds none.
ErrorsAs(chain) == LET IsError(l) == l.t = "Error" IN FirstIndex(chain, IsError)

\* &HTTPError{Code, Message, Provider, Suggestion, Err}
HTTPError(c, m, sg, pv, err) ==
  [code |-> c, message |-> m, suggestion |-> sg, provider |-> pv, err |-> err]

\* The nil Renderer.
NilRenderer == HTTPError(0, "", "", "", <<>>)

DefaultInternalMessage == "Internal server error"

\* Fault variant of ErrInternalServer: the message passed is used as it is.
ErrInternalServer_NoDefault(chain, msg) == HTTPError(500, msg, "", "", chain)

\* ErrInternalServer(err, msg)
ErrInternalServer(chain, msg) ==
  HTTPError(500, IF msg # "" THEN msg ELSE DefaultInternalMessage, "", "", chain)

\* ErrHTTPError(err, fallbackMessage)
ErrHTTPError(chain, fallbackMessage) ==
  LET i == ErrorsAs(chain)
      e == chain[i]
  IN IF chain = <<>> THEN NilRenderer
     ELSE IF i # 0
       THEN HTTPError(e.code, e.msg, e.suggestion, e.provider, SubSeq(chain, i + 1, Len(chain)))
     ELSE ErrInternalServer(chain, fallbackMessage)

\* The links of the chains ErrHTTPError is given, and the chains of at most
\* MaxChain links.
HTTPLinks ==
  {FmtLink("failed to init node"), FmtLink("transport"),
   ErrorLink(400, OtherMsg, "", LambdaLabsProvider),
   ErrorLink(401, OtherMsg, CredSuggestion, LambdaLabsProvider),
   ErrorLink(500, "Failed to get SSH key", "", "")}
HTTPChains == UNION {[1..n -> HTTPLinks] : n \in 0..MaxChain}
FallbackMessages == {"", "Failed to create session"}

\* A handler passes the error of its service call to ErrHTTPError.
ErrHTTPErrorCall ==
  /\ ret.op = "error"
  /\ ret' = [ret EXCEPT !.op = "ErrHTTPError", !.http = ErrHTTPError(ret.chain, ret.fallback)]
  /\ UNCHANGED <<sessions, created, touched, sshKeys, provKeys, provNodes, watchers>>

InitHTTP ==
  /\ sessions = <<>>
  /\ created = <<>>
  /\ touched = <<>>
  /\ sshKeys = <<>>
  /\ provKeys = <<>>
  /\ provNodes = <<>>
  /\ watchers = <<>>
  /\ \E c \in HTTPChains, f \in FallbackMessages :
       ret = [op |-> "error", chain |-> c, fallback |-> f, http |-> NilRenderer]

NextHTTP == ErrHTTPErrorCall

SpecHTTP == InitHTTP /\ [][NextHTTP]_vars

\* ------------------------------------------- the service called directly
\* The specification of the Session Service as its callers see it: the
\* services of two accounts share the persistence layer and the provider
\* account; every call records what it was given, what it returned and the
\* stores before and after it. One watcher task runs beside the calls.

\* The accounts whose services are called (s.srv.cid).
Accounts == {Account, "acct2"}

\* The persisted rows, the provider's stores and the number of watcher tasks.
Stores ==
  [rows |-> sessions, keys |-> sshKeys, pkeys |-> provKeys, nodes |-> provNodes,
   tasks |-> Len(watchers)]

\* The outcome of a service call: CallRet with the stores the call left.
ServiceRet(op, arg, env, e, out, after) ==
  [op |-> op, arg |-> arg, env |-> env, err |-> e, out |-> out, before |-> Stores, after |-> after]

\* The session ids a caller of the service specification may name.
ServiceIDs == 1..(MaxServiceSessions + 1)

\* The environments of the creation requests: each external call failing.
ServiceCreateEnvs ==
  {EnvOK, [EnvOK EXCEPT !.apiKey = FALSE], [EnvOK EXCEPT !.dbByName = TRUE],
   [EnvOK EXCEPT !.dbSave = TRUE], [EnvOK EXCEPT !.listKeys = Resp(401, OtherMsg)],
   [EnvOK EXCEPT !.addKey = Resp(0, "")], [EnvOK EXCEPT !.launch = Resp(500, "")],
   [EnvOK EXCEPT !.launch = Resp(0, "")], [EnvOK EXCEPT !.dbCreate = TRUE]}

\* The creation requests of the service specification: the base request of
\* the first account under every environment, its request for the provider
\* the initializer does not support, and the request of the second account
\* for the same public key under another name.
ServiceCreateCalls ==
  {<<Account, BaseParams, env>> : env \in ServiceCreateEnvs}
  \cup {<<Account, [BaseParams EXCEPT !.provider = UnweaveProvider], EnvOK>>,
        <<"acct2", [BaseParams EXCEPT !.name = "k2"], EnvOK>>}

\* rti.Initialize(ctx, accountID, provider)
InitializeCall(provider, apiKey) ==
  /\ ret' = ServiceRet("Initialize", provider, [EnvOK EXCEPT !.apiKey = apiKey],
                       Initialize(provider, apiKey), <<>>, Stores)
  /\ UNCHANGED <<sessions, created, touched, sshKeys, provKeys, provNodes, watchers>>

\* srv.Session.Create(ctx, projectID, params) of the service of account
CreateCall(account, projectID, params, env, maxSessions, maxNodes) ==
  /\ Len(sessions) < maxSessions
  /\ Len(provNodes) < maxNodes
  /\ \E out \in {CreateResultFor(account, sessions, sshKeys, provKeys, provNodes, projectID, params,
                                 [env EXCEPT !.genName = GeneratedName(sshKeys),
                                             !.genKey = GeneratedKey(provKeys)])} :
        /\ sessions' = out.rows
        /\ sshKeys' = out.keys
        /\ provKeys' = out.pkeys
        /\ provNodes' = out.nodes
        /\ ret' = ServiceRet("Create", <<account, projectID, params>>, env, out.err, out.val,
                             [Stores EXCEPT !.rows = out.rows, !.keys = out.keys,
                                            !.pkeys = out.pkeys, !.nodes = out.nodes])
  /\ UNCHANGED <<created, touched, watchers>>

\* srv.Session.Watch(ctx, sessionID)
WatchCall(id, env) ==
  /\ Len(watchers) < 1
  /\ \E out \in {WatchResult(sessions, watchers, id, env)} :
        /\ watchers' = out.watchers
        /\ ret' = ServiceRet("Watch", id, env, out.err, <<>>,
                             [Stores EXCEPT !.tasks = Len(out.watchers)])
  /\ UNCHANGED <<sessions, created, touched, sshKeys, provKeys, provNodes>>

\* srv.Session.Terminate(ctx, sessionID)
TerminateCall(id, env) ==
  \E out \in {TerminateResult(sessions, provNodes, id, env)} :
     /\ sessions' = out.rows
     /\ provNodes' = out.nodes
     /\ ret' = ServiceRet("Terminate", id, env, out.err, <<>>,
                          [Stores EXCEPT !.rows = out.rows, !.nodes = out.nodes])
     /\ UNCHANGED <<created, touched, sshKeys, provKeys, watchers>>

\* fetchCredentials(ctx, accountID, n, pk) called by the SSH key service
ServiceFetchCredentials(account, n, pk, env) ==
  \E out \in {fetchCredentials(sshKeys, account, n, pk,
                               [env EXCEPT !.genName = GeneratedName(sshKeys)])} :
     /\ Len(out.keys) <= MaxKeys
     /\ sshKeys' = out.keys
     /\ ret' = ServiceRet("fetchCredentials", <<account, n, pk>>, env, out.err, out.key,
                          [Stores EXCEPT !.keys = out.keys])
     /\ UNCHANGED <<sessions, created, touched, provKeys, provNodes, watchers>>

\* registerCredentials(ctx, rt, key)
ServiceRegisterCredentials(key, env) ==
  \E out \in {registerCredentials(provKeys, key, [env EXCEPT !.genKey = GeneratedKey(provKeys)])} :
     /\ Len(out.pkeys) <= MaxKeys
     /\ provKeys' = out.pkeys
     /\ ret' = ServiceRet("registerCredentials", key, env, out.err, key,
                          [Stores EXCEPT !.pkeys = out.pkeys])
     /\ UNCHANGED <<sessions, created, touched, sshKeys, provNodes, watchers>>

InitService ==
  /\ sessions = <<>>
  /\ created = <<>>
  /\ touched = <<>>
  /\ sshKeys = <<>>
  /\ provKeys = <<>>
  /\ provNodes = <<>>
  /\ watchers = <<>>
  /\ ret = [op |-> "none", arg |-> 0, env |-> EnvOK, err |-> NoErr, out |-> <<>>,
            before |-> [rows |-> <<>>, keys |-> <<>>, pkeys |-> <<>>, nodes |-> <<>>, tasks |-> 0],
            after |-> [rows |-> <<>>, keys |-> <<>>, pkeys |-> <<>>, nodes |-> <<>>, tasks |-> 0]]

NextService ==
  \/ \E pv \in Providers, apiKey \in BOOLEAN : InitializeCall(pv, apiKey)
  \/ \E c \in ServiceCreateCalls : CreateCall(c[1], "p1", c[2], c[3], MaxServiceSessions, MaxLaunches)
  \/ \E id \in ServiceIDs, env \in WatchEnvs : WatchCall(id, env)
  \/ \E id \in ServiceIDs, env \in TerminateEnvs : TerminateCall(id, env)
  \/ \E pk \in {KeyA, Nil}, env \in FetchEnvs : ServiceFetchCredentials(Account, "k1", pk, env)
  \/ \E env \in KeyEnvs : ServiceRegisterCredentials(SSHKey("k1", KeyA), env)

SpecService == InitService /\ [][NextService]_vars

\* The service beside one watcher task: every operation that reads or writes
\* session rows, the credential operations, the watcher task and its feed.
NextFrame ==
  \/ \E env \in {EnvOK, [EnvOK EXCEPT !.launch = Resp(500, "")]} : Create("p1", BaseParams, env)
  \/ \E id \in 1..MaxSessions : Get(id, EnvOK)
  \/ List("p1", TRUE, EnvOK)
  \/ \E id \in 1..MaxSessions : Watch(id, EnvOK, 1)
  \/ \E id \in 1..MaxSessions : Terminate(id, EnvOK)
  \/ FetchCredentialsCall("k1", KeyA, EnvOK)
  \/ RegisterCredentialsCall(SSHKey("k1", KeyA), EnvOK)
  \/ \E st \in Statuses : FeedEmit(1, st, RaceFeed)
  \/ WatcherRecvStatus(1)
  \/ \E fault \in BOOLEAN : WatcherWrite(1, fault)
  \/ WatcherRecvErr(1)
  \/ WatcherCtxDone(1)

SpecFrame == Init /\ [][NextFrame]_vars

\* ------------------------------------------------- List on a large project
\* The specification of List as a function of the persisted rows: the rows
\* are drawn from stores of a few sessions and of about ListLimit sessions.

\* The largest number of persisted session rows.
MaxListRows == 102

\* The persisted row of session i of project pr in status st.
ListRow(i, pr, st) ==
  [SessionCreate(<<>>, [nodeID |-> InstanceIds[1], createdBy |-> Account, projectID |-> pr,
                       provider |-> LambdaLabsProvider, region |-> "us-east",
                       sshKeyName |-> "k1"])[1] EXCEPT !.id = i, !.status = st]

\* n rows in the order they were created: the oldest in status oldest, the
\* second of project pr2, all the others of project p1 in status fill.
ListStore(n, oldest, fill, pr2) ==
  [i \in 1..n |-> ListRow(i, IF i = 2 THEN pr2 ELSE "p1", IF i = 1 THEN oldest ELSE fill)]

ListSizes == (0..2) \cup ((ListLimit - 1)..MaxListRows)

ListStores ==
  {ListStore(n, o, f, pr2) : n \in ListSizes, o \in Statuses,
                             f \in {StatusActive, StatusTerminated}, pr2 \in Projects}

InitList ==
  /\ sessions \in ListStores
  /\ created = <<>>
  /\ touched = <<>>
  /\ sshKeys = <<>>
  /\ provKeys = <<>>
  /\ provNodes = <<>>
  /\ watchers = <<>>
  /\ ret = Ret("none", 0, NoErr, <<>>)

NextList == \E lt \in BOOLEAN, env \in ReadEnvs : List("p1", lt, env)

SpecList == InitList /\ [][NextList]_vars

\* ------------------------------------------------------------------ claims
Rank(st) == CASE st = StatusInitializing -> 1 [] st = StatusActive -> 2
              [] st = StatusTerminated -> 3 [] OTHER -> 0
IsPrefix(a, b) == Len(a) <= Len(b) /\ \A i \in 1..Len(a) : a[i] = b[i]
Last(q) == q[Len(q)]

\* C1: under any interleaving of watcher writes and Terminate on a session,
\* no step moves a persisted status to an earlier state of Initializing ->
\* Active -> Terminated, and a Terminated status is never changed.
C1_StatusOnlyForward ==
  [][\A i \in 1..Len(sessions) : Rank(sessions'[i].status) >= Rank(sessions[i].status)]_vars

\* C2: a Create step that returns an error (Runtime initialization,
\* fetchCredentials, registerCredentials or InitNode failed) leaves the
\* persisted session rows as they were; a Create step that adds a row
\* returns no error.
CreateStepFailures ==
  {"failed to create runtime", "failed to setup credentials",
   "failed to register credentials", "failed to init node"}
C2_CreateFailurePersistsNothing ==
  [][ret'.op = "Create" =>
       /\ (ret'.err.ctx \in CreateStepFailures => IsErr(ret'.err) /\ sessions' = sessions)
       /\ (IsErr(ret'.err) => sessions' = sessions)
       /\ (sessions' # sessions => ~IsErr(ret'.err) /\ Len(sessions') = Len(sessions) + 1)]_vars
\* Create has failed at InitNode after the credentials were persisted, and no
\* session row exists.
C2_Witness ==
  /\ ret.op = "Create" /\ ret.err.ctx = "failed to init node"
  /\ sshKeys # <<>> /\ provKeys # <<>> /\ sessions = <<>>

\* C3: a watcher writes nothing after the Terminated it received: Terminated
\* is the last status it persisted and the task has left its loop; from the
\* feed Initializing, Active, Terminated, Active it persists at most the
\* first three, and exactly these when it ends on Terminated.
MalformedFeed == <<StatusInitializing, StatusActive, StatusTerminated, StatusActive>>
C3_NoWriteAfterTerminated ==
  \A n \in 1..Len(watchers) :
    LET w == watchers[n]
    IN /\ \A i \in 1..Len(w.written) :
            w.written[i] = StatusTerminated => i = Len(w.written) /\ w.pc = "done"
       /\ w.emitted = MalformedFeed => IsPrefix(w.written, SubSeq(MalformedFeed, 1, 3))
       /\ w.emitted = MalformedFeed /\ w.exit = "terminated" => w.written = SubSeq(MalformedFeed, 1, 3)
\* The feed has emitted all four statuses, the watcher has persisted the
\* first three and exited, the fourth is left unreceived on the channel.
C3_Witness ==
  \E n \in 1..Len(watchers) :
    /\ watchers[n].emitted = MalformedFeed
    /\ watchers[n].written = SubSeq(MalformedFeed, 1, 3)
    /\ watchers[n].pc = "done" /\ watchers[n].chan = StatusActive

\* C4: a Terminate step that returns an error (session load, Runtime
\* initialization or TerminateNode failed) leaves every persisted status
\* unchanged, and a Terminate step that changes a status has terminated the
\* session's node at the provider.
C4_TerminateMarksAfterNode ==
  [][ret'.op = "Terminate" =>
       /\ (IsErr(ret'.err) => sessions' = sessions)
       /\ (sessions' # sessions =>
             /\ ~IsErr(ret'.err)
             /\ sessions'[ret'.id].status = StatusTerminated
             /\ \A k \in 1..Len(provNodes') :
                  provNodes'[k].id = sessions[ret'.id].nodeID => ~provNodes'[k].running)]_vars
\* Terminate has failed at TerminateNode and the session is still Initializing.
C4_Witness ==
  /\ ret.op = "Terminate" /\ ret.err.ctx = "failed to terminate node"
  /\ ret.id \in 1..Len(sessions) /\ sessions[ret.id].status = StatusInitializing

\* C5: when TerminateNode succeeded and the status write failed (the failure
\* is logged), Terminate returns no error and the persisted statuses keep
\* their previous values.
C5_TerminateHidesWriteFailure ==
  [][ret'.op = "Terminate" /\ ret'.log = TerminateLogMsg =>
       /\ ret'.err = NoErr
       /\ sessions' = sessions
       /\ \A k \in 1..Len(provNodes') :
            provNodes'[k].id = sessions[ret'.id].nodeID => ~provNodes'[k].running]_vars
\* Terminate has returned success with the write failure logged: the node is
\* gone and the row still says Initializing.
C5_Witness ==
  /\ ret.op = "Terminate" /\ ret.log = TerminateLogMsg /\ ret.err = NoErr
  /\ sessions[ret.id].status = StatusInitializing
  /\ \E k \in 1..Len(provNodes) : provNodes[k].id = sessions[ret.id].nodeID /\ ~provNodes[k].running

\* C6: a session created with provider P, region R and node type T is
\* returned by Get with Provider = P, Region = R, NodeTypeID = T and
\* Status = Initializing while no status write has been applied to it.
C6_CreateGetRoundTrip ==
  (ret.op = "Get" /\ ~IsErr(ret.err) /\ ~touched[ret.id] /\ created[ret.id].region # Nil) =>
    /\ ret.val[1].provider = created[ret.id].provider
    /\ ret.val[1].region = created[ret.id].region
    /\ ret.val[1].nodeTypeID = created[ret.id].nodeTypeID
    /\ ret.val[1].status = StatusInitializing

\* C7: List with includeTerminated = false returns no session whose
\* persisted status is terminated, and only sessions of the project asked for.
C7_ListExcludesTerminated ==
  (ret.op = "List" /\ ~ret.listTerminated) =>
    \A i \in 1..Len(ret.val) :
      LET id == ret.val[i].id
      IN /\ id \in 1..Len(sessions)
         /\ sessions[id].status # StatusTerminated
         /\ sessions[id].projectID = ret.projectID
\* List has returned a session of a project that also holds a terminated one.
C7_Witness ==
  /\ ret.op = "List" /\ ~ret.listTerminated /\ Len(ret.val) >= 1
  /\ \E i \in 1..Len(sessions) :
       sessions[i].status = StatusTerminated /\ sessions[i].projectID = ret.projectID

\* C8: a Get step changes no persisted state, and Get on an id without a
\* persisted row fails, with the NotFound (404) Error whenever the query
\* itself answered.
C8_GetIsPureAndNotFound ==
  [][ret'.op = "Get" =>
       /\ UNCHANGED <<sessions, sshKeys, provKeys, provNodes, watchers>>
       /\ (ret'.id \notin 1..Len(sessions) =>
             /\ IsErr(ret'.err)
             /\ (ret'.err.ctx # "failed to get session from db" =>
                   ret'.err.kind = "Error" /\ ret'.err.code = 404))
       /\ (ret'.err.kind = "Error" /\ ret'.err.code = 404 => ret'.id \notin 1..Len(sessions))]_vars
\* Get has answered 404 for an absent id while another session is persisted.
C8_Witness ==
  /\ ret.op = "Get" /\ ret.id \notin 1..Len(sessions) /\ Len(sessions) >= 1
  /\ ret.err.kind = "Error" /\ ret.err.code = 404

\* C9: the statuses a watcher task has persisted are, in order, a prefix of
\* the statuses its feed has emitted.
C9_WrittenPrefixOfEmitted ==
  \A n \in 1..Len(watchers) : IsPrefix(watchers[n].written, watchers[n].emitted)
\* A watcher has persisted two statuses of a feed that has emitted three.
C9_Witness ==
  \E n \in 1..Len(watchers) :
    /\ Len(watchers[n].written) = 2 /\ Len(watchers[n].emitted) = 3
    /\ watchers[n].written[1] # watchers[n].written[2]

\* C10: once a watcher has received from the error feed or one of its status
\* writes has failed, it is out of its loop and takes no further step: no
\* status write, no retry.
C10_StopsOnFirstError ==
  [][\A n \in 1..Len(watchers) :
       watchers[n].sawErr =>
         /\ watchers[n].pc = "done"
         /\ watchers[n].exit \in {"writefail", "errfeed"}
         /\ watchers'[n] = watchers[n]]_vars
\* A watcher has stopped on a failed write of its second status, the first
\* one persisted.
C10_Witness ==
  \E n \in 1..Len(watchers) :
    /\ watchers[n].exit = "writefail" /\ watchers[n].pc = "done"
    /\ Len(watchers[n].written) = 1 /\ Len(watchers[n].emitted) >= 2

\* C11: a second AddSSHKey call with the inputs of a successful first one, on
\* the store the first one left, succeeds without a create request, returns
\* the key the first call returned and leaves the store as it was, with
\* exactly one record for that key.
C11_AddSSHKeyIdempotent ==
  (ret.op = "AddSSHKey" /\ ret.again /\ ret.env.listKeys = OK200) =>
    /\ ret.err = NoErr
    /\ ret.out = ret.prevOut
    /\ provKeys = ret.before
    /\ Cardinality({i \in 1..Len(provKeys) : provKeys[i] = ret.out}) = 1
    /\ Cardinality({i \in 1..Len(provKeys) : provKeys[i].name = ret.out.name}) = 1
\* AddSSHKey has been called twice with a name and no public key: the first
\* call created the key with a generated public key, the second returned it,
\* although the create request of the second would have failed.
C11_Witness ==
  /\ ret.op = "AddSSHKey" /\ ret.again /\ ret.arg.publicKey = Nil
  /\ ret.env.addKey # OK200 /\ ret.err = NoErr
  /\ ret.out.name = ret.arg.name /\ ret.out.publicKey = GeneratedKeys[2]
  /\ Len(provKeys) = 2

\* C12: AddSSHKey with a name the provider's store holds returns the key
\* stored under that name when no public key is supplied or the supplied one
\* equals the stored one, and otherwise fails with a 400 Error; the store is
\* left as it was, whatever else it holds and in whatever order.
C12_SameNameDecides ==
  ret.op = "AddSSHKey" /\ ret.env.listKeys = OK200 =>
    \A i \in 1..Len(ret.before) :
      ret.before[i].name = ret.arg.name =>
        /\ provKeys = ret.before
        /\ IF ret.arg.publicKey = Nil \/ ret.arg.publicKey = ret.before[i].publicKey
           THEN ret.err = NoErr /\ ret.out = ret.before[i]
           ELSE ret.err.kind = "Error" /\ ret.err.code = 400

\* C13: AddSSHKey with a name the provider's store does not hold and a public
\* key it holds under another name returns that stored key without sending a
\* create request and leaves the store as it was; no two records of the
\* store carry the same public key.
C13_SamePublicKeyReused ==
  /\ \A i, j \in 1..Len(provKeys) : provKeys[i].publicKey = provKeys[j].publicKey => i = j
  /\ (/\ ret.op = "AddSSHKey" /\ ret.env.listKeys = OK200
      /\ ret.arg.name # "" /\ ret.arg.publicKey # Nil
      /\ \A i \in 1..Len(ret.before) : ret.before[i].name # ret.arg.name) =>
       \A i \in 1..Len(ret.before) :
         ret.before[i].publicKey = ret.arg.publicKey =>
           ret.err = NoErr /\ ret.out = ret.before[i] /\ provKeys = ret.before
\* AddSSHKey was called with the new name k2 and the public key stored under
\* k1, in an environment whose create request fails: it returned k1's key.
C13_Witness ==
  /\ ret.op = "AddSSHKey" /\ ret.arg = SSHKey("k2", KeyA) /\ ret.env.addKey # OK200
  /\ ret.before = <<SSHKey("k1", KeyA)>> /\ ret.err = NoErr /\ ret.out = SSHKey("k1", KeyA)
  /\ provKeys = ret.before

\* The persisted key record as fetchCredentials returns it.
Persisted(k) == SSHKey(k.name, k.publicKey)

\* C14: fetchCredentials with a name under which a key is persisted returns
\* that record whatever public key comes with it and whether or not the
\* public-key lookup or the save would fail; with a public key only, whose
\* canonical form a persisted record holds, it returns that record under its
\* persisted name. Neither case persists anything.
C14_LookupPrecedence ==
  ret.op = "fetchCredentials" =>
    \A i \in 1..Len(ret.before) :
      /\ (ret.arg[1] # Nil /\ ~ret.env.dbByName /\ ret.before[i].name = ret.arg[1]) =>
           ret.err = NoErr /\ ret.out = Persisted(ret.before[i]) /\ sshKeys = ret.before
      /\ (/\ ret.arg[1] = Nil /\ ret.arg[2] # Nil /\ ParseAuthorizedKeyOK(ret.arg[2])
          /\ ~ret.env.dbByPk
          /\ ret.before[i].publicKey = MarshalAuthorizedKey(ret.arg[2])) =>
           ret.err = NoErr /\ ret.out = Persisted(ret.before[i]) /\ sshKeys = ret.before
\* fetchCredentials was called with no name and KeyA followed by a comment,
\* KeyA being persisted under k1, in an environment whose save fails: it
\* returned the record k1.
C14_Witness ==
  /\ ret.op = "fetchCredentials" /\ ret.arg = <<Nil, KeyAComment>> /\ ret.env.dbSave
  /\ ret.err = NoErr /\ ret.out = SSHKey("k1", KeyA) /\ Len(sshKeys) = 1

\* C15: fetchCredentials without a public key fails with a 400 Error and
\* persists nothing when no name is supplied either, and when the supplied
\* name matches no persisted key.
C15_NothingToResolve ==
  (/\ ret.op = "fetchCredentials" /\ ret.arg[2] = Nil
   /\ \/ ret.arg[1] = Nil
      \/ ~ret.env.dbByName /\ \A i \in 1..Len(ret.before) : ret.before[i].name # ret.arg[1]) =>
    ret.err.kind = "Error" /\ ret.err.code = 400 /\ ret.out = NoKey /\ sshKeys = ret.before
\* fetchCredentials was called with the name k2 and no public key while only
\* k1 is persisted.
C15_Witness ==
  /\ ret.op = "fetchCredentials" /\ ret.arg = <<"k2", Nil>> /\ ret.err.code = 400
  /\ Len(sshKeys) = 1 /\ sshKeys[1].name = "k1"

\* C16: fetchCredentials with a public key that parses, when neither lookup
\* finds a record and no persistence call fails, appends exactly one record
\* for the account and returns it: the supplied public key under the
\* supplied name, or under a generated, non-empty name when the name is
\* missing or empty.
C16_CreatesOneRecord ==
  (/\ ret.op = "fetchCredentials" /\ ret.arg[2] # Nil /\ ParseAuthorizedKeyOK(ret.arg[2])
   /\ ret.env = EnvOK
   /\ \A i \in 1..Len(ret.before) :
        /\ ret.arg[1] # Nil => ret.before[i].name # ret.arg[1]
        /\ ret.before[i].publicKey # MarshalAuthorizedKey(ret.arg[2])) =>
    /\ ret.err = NoErr
    /\ Len(sshKeys) = Len(ret.before) + 1
    /\ SubSeq(sshKeys, 1, Len(ret.before)) = ret.before
    /\ Last(sshKeys).owner = Account
    /\ Last(sshKeys).name = ret.out.name
    /\ Last(sshKeys).publicKey = MarshalAuthorizedKey(ret.out.publicKey)
    /\ ret.out.publicKey = ret.arg[2]
    /\ IF ret.arg[1] \in {Nil, ""}
       THEN ret.out.name \notin FetchNames /\ \A i \in 1..Len(ret.before) : ret.before[i].name # ret.out.name
       ELSE ret.out.name = ret.arg[1]
\* fetchCredentials was called with an empty name and KeyB while k1 with KeyA
\* is persisted: KeyB is persisted under the second generated name.
C16_Witness ==
  /\ ret.op = "fetchCredentials" /\ ret.arg = <<"", KeyB>> /\ ret.err = NoErr
  /\ Len(ret.before) = 1 /\ Len(sshKeys) = 2
  /\ sshKeys[2] = [owner |-> Account, name |-> GeneratedNames[2], publicKey |-> KeyB]

C18_RegisterEnsuresKey ==
  ret.op = "registerCredentials" =>
    /\ ret.err = NoErr => \E i \in 1..Len(provKeys) : provKeys[i].name = ret.arg.name
    /\ (ret.env.listKeys = OK200 /\ \E i \in 1..Len(ret.before) : ret.before[i].name = ret.arg.name) =>
         ret.err = NoErr /\ provKeys = ret.before
    /\ ret.again /\ ret.env.listKeys = OK200 => ret.err = NoErr /\ provKeys = ret.before

\* Whether the catalog reports a region with capacity for the node type.
HasCapacity(catalog, t) == t \in DOMAIN catalog /\ catalog[t] # <<>>

\* C19: InitNode without a region, the catalog listing answered: when the
\* catalog reports regions with capacity for the node type, the launch goes
\* to the first of them (a launch that succeeds yields a node in that region);
\* otherwise nothing is launched, whatever the launch request would answer,
\* and the error is a 503 Error whose suggestion is the catalog snapshot.
\* With X -> [] and Y -> ["us-east"], Y is launched in us-east and X fails.
C19_FirstRegionWithCapacity ==
  (ret.op = "InitNode" /\ ret.arg[2] = Nil /\ ret.env.listTypes = OK200) =>
    /\ HasCapacity(ret.env.catalog, ret.arg[1]) =>
         /\ ret.env.launch = OK200 /\ ~ret.env.noIds => ret.err = NoErr
         /\ ret.err = NoErr =>
              /\ ret.out.region = ret.env.catalog[ret.arg[1]][1]
              /\ ret.out.typeID = ret.arg[1]
              /\ Len(provNodes) = Len(ret.before) + 1
              /\ Last(provNodes).region = ret.env.catalog[ret.arg[1]][1]
         /\ ret.err.code # 503 \/ (ret.env.launch.code = 400 /\ ContainsAvailableCapacity(ret.env.launch.msg))
    /\ ~HasCapacity(ret.env.catalog, ret.arg[1]) =>
         /\ ret.err.kind = "Error" /\ ret.err.code = 503
         /\ ret.err.suggestion = CatalogJSON(ret.env.catalog)
         /\ ret.out = NoNode /\ provNodes = ret.before
    /\ ret.env.catalog = CatalogXY =>
         /\ ret.arg[1] = "X" => ret.err.code = 503
         /\ ret.arg[1] = "Y" /\ ret.err = NoErr => ret.out.region = "us-east"
\* InitNode was called for X without a region under the catalog that reports
\* two regions for X: the node is in the first, us-west.
C19_Witness ==
  /\ ret.op = "InitNode" /\ ret.arg = <<"X", Nil>> /\ ret.env.catalog = CatalogFull
  /\ ret.err = NoErr /\ ret.out.region = "us-west" /\ Len(provNodes) = 1

\* C20: every error an adapter operation returns is an Error of the provider
\* with a code of {400, 401, 403, 404, 500, 503}, or the catch-all Error that
\* carries the status the provider answered.
AdapterOps == {"AddSSHKey", "ListSSHKeys", "ListNodeTypes", "InitNode", "TerminateNode"}
C20_AdapterErrorsAreCommon ==
  (ret.op \in AdapterOps /\ IsErr(ret.err)) =>
    /\ ret.err.kind = "Error"
    /\ ret.err.provider = LambdaLabsProvider
    /\ \/ ret.err.code \in {400, 401, 403, 404, 500, 503}
       \/ ret.err.msg = "Unknown error" /\ ret.err.code \in {r.code : r \in FailResponses}

\* Whether the message m names the provider pv as Initialize's errors do.
NamesProvider(m, pv) ==
  m \in {"missing " \o pv \o " API key in runtime config file",
         "\"" \o pv \o "\" provider not supported in the env initializer"}
\* Whether the environment initializer has a Runtime for the provider.
HasRuntime(pv, env) == pv = LambdaLabsProvider /\ env.apiKey

\* C21: Initialize returns a Runtime exactly for the LambdaLabs provider with
\* its API key set; otherwise (the Unweave provider, a missing key) it returns
\* an error that names the provider. Create for such a provider, and Watch and
\* Terminate of a session of such a provider, fail with that error in their
\* chain and leave the persisted rows, the provider's stores and the watcher
\* tasks as they were.
C21_InitializeGuardsEveryCall ==
  /\ ret.op = "Initialize" =>
       /\ ret.err = NoErr <=> HasRuntime(ret.arg, ret.env)
       /\ IsErr(ret.err) => NamesProvider(ret.err.cause, ret.arg)
  /\ (ret.op = "Create" /\ ~HasRuntime(ret.arg[3].provider, ret.env)) =>
       /\ IsErr(ret.err) /\ NamesProvider(ret.err.cause, ret.arg[3].provider)
       /\ ret.out = <<>> /\ ret.after = ret.before
  /\ (/\ ret.op \in {"Watch", "Terminate"} /\ ~ret.env.dbGet
      /\ ret.arg \in 1..Len(ret.before.rows)
      /\ ~HasRuntime(ret.before.rows[ret.arg].provider, ret.env)) =>
       /\ IsErr(ret.err) /\ NamesProvider(ret.err.cause, ret.before.rows[ret.arg].provider)
       /\ ret.after = ret.before
\* Terminate was called on a persisted session with the API key missing: it
\* failed, the session is still Initializing and its node still runs.
C21_Witness ==
  /\ ret.op = "Terminate" /\ ~ret.env.apiKey /\ ret.arg = 1 /\ Len(sessions) = 1
  /\ ret.err.ctx = "failed to create runtime"
  /\ sessions[1].status = StatusInitializing
  /\ \E k \in 1..Len(provNodes) : provNodes[k].id = sessions[1].nodeID /\ provNodes[k].running

\* The provider responses of a call's environment that are failures.
FailedResponses(env) == {env.listKeys, env.addKey, env.launch, env.terminate} \ {OK200}
\* The contexts under which the service returns a failed provider call.
ProviderContexts ==
  {"failed to register credentials", "failed to init node", "failed to terminate node",
   "failed to list ssh keys from provider", "failed to add ssh key to provider"}
\* The contexts under which the service returns a failed persistence call.
PersistenceContexts ==
  {"failed to get session from db", "failed to fetch session from db",
   "failed to create session in db"}

\* C22: an error returned by Create, Watch, Terminate, fetchCredentials or
\* registerCredentials for a failed persistence call has the persistence
\* error at the end of its chain; one returned for a failed provider call has
\* the transport error at the end of its chain or holds the provider's Error,
\* whose code is the code of the HTTP response rendered from it.
C22_CauseNeverSwallowed ==
  (ret.op \in {"Create", "Watch", "Terminate", "fetchCredentials", "registerCredentials"}
   /\ IsErr(ret.err)) =>
    /\ (ret.err.ctx \in PersistenceContexts \/ (ret.err.kind = "Error" /\ ret.err.code = 500
                                               /\ ret.err.provider = "")) =>
         ret.err.cause = DBErr.cause /\ Last(Chain(ret.err)) = FmtLink(DBErr.cause)
    /\ ret.err.ctx \in ProviderContexts =>
         \A r \in FailedResponses(ret.env) :
           IF r.code = 0
           THEN ret.err.cause = TransportErr.cause
           ELSE /\ ret.err.kind = "Error" /\ ret.err.provider = LambdaLabsProvider
                /\ ErrHTTPError(Chain(ret.err), "").code = r.code

\* Whether watcher task n has not left its loop.
Active(n) == watchers[n].pc # "done"

\* C23: at every moment at most one watcher task of a session is active,
\* also when Watch is called on a session whose watcher is still running.
C23_OneWatcherPerSession ==
  \A m, n \in 1..Len(watchers) :
    (watchers[m].sid = watchers[n].sid /\ Active(m) /\ Active(n)) => m = n

\* C24: whichever way a watcher task has left its loop (Terminated written,
\* an error from the error feed, a failed status write, its context
\* cancelled), the context it handed to the Runtime's Watch is cancelled, and
\* the feed sends nothing from then on.
C24_EveryExitCancels ==
  [][\A n \in 1..Len(watchers') :
       watchers'[n].pc = "done" =>
         /\ watchers'[n].ctxDone
         /\ watchers'[n].exit \in {"terminated", "errfeed", "writefail", "cancelled"}
         /\ (n <= Len(watchers) /\ watchers[n].pc = "done") =>
              watchers'[n].emitted = watchers[n].emitted /\ watchers'[n].chan = watchers[n].chan]_vars
\* A watcher has stopped on a failed write after one persisted status; its
\* context is cancelled.
C24_Witness ==
  \E n \in 1..Len(watchers) :
    /\ watchers[n].pc = "done" /\ watchers[n].exit = "writefail" /\ watchers[n].ctxDone
    /\ Len(watchers[n].written) = 1

\* C25: when the insert of the session row fails after InitNode launched a
\* node, Create returns the error, no row is added, the instances that were
\* there are as they were (no TerminateNode) and the launched node is still
\* running at the provider, referenced by no session row.
C25_CreateHasNoRollback ==
  (ret.op = "Create" /\ ret.env.dbCreate /\ HasRuntime(ret.arg[3].provider, ret.env)) =>
    /\ IsErr(ret.err) /\ ret.err.ctx = "failed to create session in db" /\ ret.out = <<>>
    /\ ret.after.rows = ret.before.rows
    /\ Len(ret.after.nodes) = Len(ret.before.nodes) + 1
    /\ SubSeq(ret.after.nodes, 1, Len(ret.before.nodes)) = ret.before.nodes
    /\ Last(ret.after.nodes).running
    /\ \A i \in 1..Len(ret.after.rows) : ret.after.rows[i].nodeID # Last(ret.after.nodes).id
\* Create has failed at the insert on empty stores: no session row exists and
\* one node runs at the provider.
C25_Witness ==
  /\ ret.op = "Create" /\ ret.env.dbCreate /\ ret.err.cause = DBErr.cause
  /\ sessions = <<>> /\ Len(provNodes) = 1 /\ provNodes[1].running

\* Whether watcher task n persists a status of session i in this step.
WatcherWrote(n, i) ==
  /\ watchers[n].pc = "write" /\ watchers[n].sid = i
  /\ watchers'[n].written = Append(watchers[n].written, watchers[n].status)

\* C26: no step removes a session row or changes anything of a row but its
\* status; a step that adds rows is a Create and adds exactly one, leaving
\* the others as they were; a step that changes the status of a row is a
\* Terminate of that session or a write of a watcher task of that session,
\* and changes no other row. So Get, List, Watch and the credential
\* operations change no row.
C26_SessionRowsFrame ==
  [][/\ Len(sessions') >= Len(sessions)
     /\ \A i \in 1..Len(sessions) : [sessions'[i] EXCEPT !.status = sessions[i].status] = sessions[i]
     /\ Len(sessions') > Len(sessions) =>
          /\ ret'.op = "Create" /\ ret'.err = NoErr
          /\ Len(sessions') = Len(sessions) + 1
          /\ SubSeq(sessions', 1, Len(sessions)) = sessions
     /\ \A i \in 1..Len(sessions) :
          sessions'[i].status # sessions[i].status =>
            /\ \A j \in 1..Len(sessions) : j # i => sessions'[j] = sessions[j]
            /\ Len(sessions') = Len(sessions)
            /\ \/ /\ ret'.op = "Terminate" /\ ret'.id = i /\ watchers' = watchers
                  /\ sessions'[i].status = StatusTerminated
               \/ /\ ret' = ret
                  /\ \E n \in 1..Len(watchers) : WatcherWrote(n, i)]_vars
\* Two sessions are persisted: a watcher task has moved the first to Active,
\* Terminate has moved the second to Terminated.
C26_Witness ==
  /\ Len(sessions) = 2 /\ sessions[1].status = StatusActive /\ sessions[2].status = StatusTerminated
  /\ ret.op = "Terminate" /\ ret.id = 2
  /\ \E n \in 1..Len(watchers) : watchers[n].sid = 1 /\ watchers[n].written = <<StatusActive>>

\* C27: a status write is applied whatever the row holds: after a watcher
\* task has persisted the status it received the row holds that status, also
\* when the row was Terminated; after Terminate has written the row holds
\* Terminated. The write applied last decides.
C27_LastWriteWins ==
  [][/\ \A n \in 1..Len(watchers) :
          WatcherWrote(n, watchers[n].sid) => sessions'[watchers[n].sid].status = watchers[n].status
     /\ (ret'.op = "Terminate" /\ ret'.err = NoErr /\ ret'.log = "" /\ watchers' = watchers) =>
          sessions'[ret'.id].status = StatusTerminated]_vars
\* Terminate has returned, its write applied, and the row says Active: the
\* write of a watcher task that had received Active from its feed came after.
C27_Witness ==
  /\ ret.op = "Terminate" /\ ret.err = NoErr /\ ret.log = ""
  /\ sessions[ret.id].status = StatusActive
  /\ \E n \in 1..Len(watchers) :
       watchers[n].sid = ret.id /\ watchers[n].written # <<>> /\ Last(watchers[n].written) = StatusActive

\* C28: Create launches a node only after the Runtime was initialized, the
\* credentials were resolved and registerCredentials returned success: a
\* Create that failed at one of these steps has launched nothing, and the key
\* a launched node was started with is persisted for the account and, by
\* name, in the provider's key store.
C28_CreateStepOrder ==
  ret.op = "Create" =>
    /\ ret.err.ctx \in {"failed to create runtime", "failed to setup credentials",
                        "failed to register credentials"} =>
         ret.after.nodes = ret.before.nodes /\ ret.after.rows = ret.before.rows
    /\ ret.err.ctx \in {"failed to create runtime", "failed to setup credentials"} =>
         ret.after.pkeys = ret.before.pkeys
    /\ ret.err.ctx = "failed to create runtime" => ret.after.keys = ret.before.keys
    /\ Len(ret.after.nodes) > Len(ret.before.nodes) =>
         /\ \E i \in 1..Len(ret.after.keys) :
              /\ ret.after.keys[i].owner = ret.arg[1]
              /\ ret.after.keys[i].name = Last(ret.after.nodes).keyName
         /\ \E i \in 1..Len(ret.after.pkeys) :
              ret.after.pkeys[i].name = Last(ret.after.nodes).keyName

\* Whether InitNode, called with these arguments under env, sends the launch
\* request: a region is given or one with capacity is found.
LaunchSent(arg, env) ==
  arg[2] # Nil \/ (env.listTypes = OK200 /\ HasCapacity(env.catalog, arg[1]))

\* C29: when the launch request of InitNode is answered 400, the error is a
\* 503 Error with the provider's message and the catalog as its suggestion
\* (the JSON of no catalog when listing it fails) if the message contains
\* "available capacity" in any letter case, and a 400 Error with the
\* provider's message otherwise; no node is returned or launched.
C29_CapacityBecomes503 ==
  (ret.op = "InitNode" /\ LaunchSent(ret.arg, ret.env) /\ ret.env.launch.code = 400) =>
    /\ ret.err.kind = "Error" /\ ret.err.provider = LambdaLabsProvider
    /\ ret.err.msg = ret.env.launch.msg
    /\ IF ret.env.launch.msg \in {CapacityMsg, LowerCapacityMsg}
       THEN /\ ret.err.code = 503
            /\ ret.err.suggestion =
                 IF ret.env.listTypes = OK200 THEN CatalogJSON(ret.env.catalog) ELSE "null"
       ELSE ret.err.code = 400 /\ ret.err.suggestion = ""
    /\ ret.out = NoNode /\ provNodes = ret.before
\* InitNode was called with a region, the launch was refused for capacity and
\* the catalog could not be listed: a 503 with the JSON of no catalog.
C29_Witness ==
  /\ ret.op = "InitNode" /\ ret.arg[2] = "us-east" /\ ret.env.launch = Resp(400, CapacityMsg)
  /\ ret.env.listTypes # OK200 /\ ret.err.code = 503 /\ ret.err.suggestion = "null"

\* C30: ErrHTTPError of nil is nil; of a chain that holds a common Error it
\* is the HTTPError with the code, message, suggestion and provider of the
\* first one; of any other chain it is the HTTPError with code 500 and the
\* fallback message, "Internal server error" when the fallback is empty.
C30_ErrHTTPErrorMapping ==
  ret.op = "ErrHTTPError" =>
    /\ ret.chain = <<>> <=> ret.http = NilRenderer
    /\ \A i \in 1..Len(ret.chain) :
         (ret.chain[i].t = "Error" /\ \A j \in 1..(i - 1) : ret.chain[j].t # "Error") =>
           /\ ret.http.code = ret.chain[i].code
           /\ ret.http.message = ret.chain[i].msg
           /\ ret.http.suggestion = ret.chain[i].suggestion
           /\ ret.http.provider = ret.chain[i].provider
    /\ (ret.chain # <<>> /\ \A i \in 1..Len(ret.chain) : ret.chain[i].t # "Error") =>
         /\ ret.http.code = 500
         /\ ret.http.message = IF ret.fallback = "" THEN "Internal server error" ELSE ret.fallback
         /\ ret.http.suggestion = "" /\ ret.http.provider = ""
\* ErrHTTPError was given a plain error wrapped twice and no fallback.
C30_Witness ==
  /\ ret.op = "ErrHTTPError" /\ Len(ret.chain) = 2 /\ ret.fallback = ""
  /\ \A i \in 1..2 : ret.chain[i].t = "fmt"
  /\ ret.http.code = 500 /\ ret.http.message = "Internal server error"

\* Whether a session row with this id is persisted in rows.
HasRow(rows, id) == \E i \in 1..Len(rows) : rows[i].id = id

\* C32: Watch of a session id without a persisted row returns the 404 Error
\* "Session not found"; a Watch that returns an error (the session could not
\* be loaded, the Runtime could not be initialized) has started no watcher
\* task and no feed, and a Watch that returns nil has started exactly one.
C32_FailedWatchStartsNothing ==
  ret.op = "Watch" =>
    /\ (~ret.env.dbGet /\ ~HasRow(ret.before.rows, ret.arg)) =>
         /\ ret.err.kind = "Error" /\ ret.err.code = 404 /\ ret.err.msg = "Session not found"
    /\ IsErr(ret.err) => ret.after.tasks = ret.before.tasks /\ Len(watchers) = ret.before.tasks
    /\ ~IsErr(ret.err) =>
         /\ HasRow(ret.before.rows, ret.arg)
         /\ ret.after.tasks = ret.before.tasks + 1 /\ Len(watchers) = ret.after.tasks
    /\ ret.after.rows = ret.before.rows
\* A session is persisted and Watch was called with the id of none: 404, no
\* watcher task.
C32_Witness ==
  /\ ret.op = "Watch" /\ ret.arg = 2 /\ Len(sessions) = 1 /\ ret.err.code = 404
  /\ watchers = <<>>

\* C37: Terminate of a session whose row is already Terminated calls
\* TerminateNode again: when the provider accepts, Terminate returns nil and
\* the row stays Terminated; when the provider rejects (or cannot be
\* reached), Terminate returns the error of TerminateNode and the row stays
\* Terminated.
C37_TerminateTwice ==
  (/\ ret.op = "Terminate" /\ HasRow(ret.before.rows, ret.arg)
   /\ ret.before.rows[ret.arg].status = StatusTerminated
   /\ ~ret.env.dbGet /\ ret.env.apiKey) =>
    /\ ret.after.rows[ret.arg].status = StatusTerminated
    /\ ret.after.rows = ret.before.rows
    /\ IF ret.env.terminate = OK200
       THEN ret.err = NoErr
       ELSE /\ IsErr(ret.err) /\ ret.err.ctx = "failed to terminate node"
            /\ ret.env.terminate.code # 0 =>
                 ret.err.kind = "Error" /\ ret.err.code = ret.env.terminate.code
\* Terminate of a Terminated session was rejected by the provider with 404.
C37_Witness ==
  /\ ret.op = "Terminate" /\ ret.arg = 1 /\ Len(ret.before.rows) = 1
  /\ ret.before.rows[1].status = StatusTerminated
  /\ ret.env.terminate = Resp(404, OtherMsg) /\ ret.err.code = 404
  /\ sessions[1].status = StatusTerminated

C36_ListLimitBeforeFilter ==
  (ret.op = "List" /\ ret.err = NoErr) =>
    LET mine == {i \in 1..Len(sessions) : sessions[i].projectID = ret.projectID}
        recent == {i \in mine : Cardinality({j \in mine : j > i}) < 100}
        shown == {i \in recent : ret.listTerminated \/ sessions[i].status # StatusTerminated}
    IN /\ Len(ret.val) <= 100
       /\ {ret.val[k].id : k \in 1..Len(ret.val)} = shown
       /\ Len(ret.val) = Cardinality(shown)
       /\ \A k \in 1..(Len(ret.val) - 1) : ret.val[k].id > ret.val[k + 1].id
\* The project holds 101 sessions, the oldest active and the 100 after it
\* terminated: List without terminated sessions has returned none.
C36_Witness ==
  /\ ret.op = "List" /\ ret.err = NoErr /\ ~ret.listTerminated /\ ret.val = <<>>
  /\ Len(sessions) = 101 /\ sessions[1].status = StatusActive
  /\ \A i \in 1..101 : sessions[i].projectID = "p1"

\* Watcher task n; a task that has not been started stands at "start".
Task(n) == IF n <= Len(watchers) THEN watchers[n] ELSE [NewWatcher(0, "") EXCEPT !.pc = "start"]
\* Whether the feed of watcher w has sent Terminated.
SentTerminated(w) == \E i \in 1..Len(w.emitted) : w.emitted[i] = StatusTerminated
\* Whether watcher task n leaves its loop in this step.
Exits(n) == watchers[n].pc # "done" /\ watchers'[n].pc = "done"
\* Once the feed of the watcher task has sent Terminated or is sending an
\* error, or the task's context is cancelled, the task leaves its loop.
WatcherStops ==
  \A n \in 1..1 :
    (n <= Len(watchers) /\ (SentTerminated(Task(n)) \/ Task(n).errSent \/ Task(n).ctxDone))
      ~> (Task(n).pc = "done")

\* C31 as stated: once the feed has sent Terminated or an error, or the
\* context is cancelled, the watcher task leaves its loop; and it leaves its
\* loop only then or when the feeds are closed.
C31_StopsOnlyOnFeedOrCancel ==
  /\ WatcherStops
  /\ [][\A n \in 1..Len(watchers) :
          Exits(n) => \/ SentTerminated(watchers[n]) \/ watchers[n].errSent
                      \/ watchers[n].ctxDone \/ watchers[n].closed]_vars

\* C31: once the feed has sent Terminated or an error, or the context is
\* cancelled, the watcher task leaves its loop; and it leaves its loop only
\* then, when the feeds are closed, or when a status write of its own failed.
C31_StopsOnFeedCancelOrFailedWrite ==
  /\ WatcherStops
  /\ [][\A n \in 1..Len(watchers) :
          Exits(n) => \/ SentTerminated(watchers[n]) \/ watchers[n].errSent
                      \/ watchers[n].ctxDone \/ watchers[n].closed
                      \/ watchers'[n].exit = "writefail"]_vars
\* The feed has sent Active only, no error, and is open; the task has left
\* its loop on the failed write of Active.
C31_Witness ==
  \E n \in 1..Len(watchers) :
    /\ watchers[n].pc = "done" /\ watchers[n].exit = "writefail"
    /\ watchers[n].emitted = <<StatusActive>> /\ watchers[n].written = <<>>
    /\ ~watchers[n].errSent /\ ~watchers[n].closed

\* C35: the status a watcher task is about to persist is one its feed has
\* sent and one of initializing, active, terminated, and so is every status
\* it has persisted: the zero status read from a closed feed is not written.
C35_WritesOnlyEmitted ==
  \A n \in 1..Len(watchers) :
    /\ watchers[n].pc = "write" =>
         /\ watchers[n].status \in Statuses
         /\ \E i \in 1..Len(watchers[n].emitted) : watchers[n].emitted[i] = watchers[n].status
    /\ \A k \in 1..Len(watchers[n].written) : watchers[n].written[k] \in Statuses

\* C39: when Terminate has returned nil with its Terminated write applied,
\* the feeds have since sent nothing but Terminated or an error (or were
\* cancelled), and every watcher task of the session has left its loop, the
\* row of the session says Terminated.
C39_TerminatedOnceWatchersExit ==
  (/\ ret.op = "Terminate" /\ ret.err = NoErr /\ ret.log = ""
   /\ \A n \in 1..Len(watchers) : watchers[n].sid = ret.id => watchers[n].pc = "done") =>
    sessions[ret.id].status = StatusTerminated

\* C33: a step that starts a goroutine of the creation handler is a
\* SessionsCreate whose Create returned a session: it adds the row of that
\* session and starts the one goroutine for its id; a step that starts any
\* other task is a Watch that returned nil. No task, started or watching,
\* is for a session id without a persisted row.
C33_WatcherOnlyAfterCreate ==
  [][/\ Len(watchers') > Len(watchers) =>
          /\ Len(watchers') = Len(watchers) + 1
          /\ IF Last(watchers').request = ""
             THEN ret'.op = "Watch" /\ ret'.err = NoErr /\ Last(watchers').sid = ret'.id
             ELSE /\ ret'.op = "SessionsCreate" /\ ret'.err = NoErr
                  /\ Len(sessions') = Len(sessions) + 1
                  /\ Last(watchers').sid = Last(sessions').id
                  /\ Last(watchers').sid = ret'.val[1].id
                  /\ Last(watchers').pc = "start"
     /\ (ret'.op = "SessionsCreate" /\ IsErr(ret'.err) /\ ret' # ret) =>
          watchers' = watchers /\ sessions' = sessions
     /\ \A n \in 1..Len(watchers') : HasRow(sessions', watchers'[n].sid)]_vars
\* A creation request has failed after one that succeeded: one row, and the
\* one goroutine, of the first request, watching that row's session.
C33_Witness ==
  /\ ret.op = "SessionsCreate" /\ IsErr(ret.err)
  /\ Len(sessions) = 1 /\ Len(watchers) = 1
  /\ watchers[1].sid = sessions[1].id /\ watchers[1].request # "" /\ watchers[1].pc = "select"

\* C34: the goroutine of the creation handler watches under
\* context.Background(): the handler answers wherever the goroutine stands
\* and its return changes nothing of the task; the task's context is not
\* cancelled while it runs, the task never leaves its loop for a cancelled
\* context, and a status it persists after the request is done is applied.
C34_WatcherOutlivesRequest ==
  [][\A n \in 1..Len(watchers) :
       watchers[n].request # "" =>
         /\ watchers[n].parent = BackgroundContext
         /\ watchers[n].pc # "done" => ~watchers[n].ctxDone
         /\ watchers'[n].exit # "cancelled"
         /\ (watchers[n].request = "open" /\ watchers'[n].request = "done") =>
              watchers'[n] = [watchers[n] EXCEPT !.request = "done"]
         /\ (watchers[n].request = "done" /\ WatcherWrote(n, watchers[n].sid)) =>
              sessions'[watchers[n].sid].status = watchers[n].status]_vars
\* The request was answered while the goroutine had not yet called Watch;
\* the task has since persisted Initializing and Active and is at its select.
C34_Witness ==
  \E n \in 1..Len(watchers) :
    /\ watchers[n].request = "done" /\ watchers[n].pc = "select" /\ ~watchers[n].ctxDone
    /\ watchers[n].written = <<StatusInitializing, StatusActive>>
    /\ sessions[watchers[n].sid].status = StatusActive

====
